---- MODULE Spec2Model ----
(***************************************************************************)
(* Model of the calculation engine of statik-ai-agent-de                   *)
(* (src/calculation.py): the beam, frame and slab analyzers, the lookup    *)
(* tables and the result records, driven by a caller that invokes one      *)
(* operation at a time and then drops the outcome.                         *)
(*                                                                         *)
(* Numbers.  The Python code computes with floats.  The model computes the *)
(* same expressions, in the same order, over exact rationals: a number is  *)
(* a record [n, d, e2, e5] that denotes n/d * 2^e2 * 5^e5, kept in the     *)
(* canonical form d > 0, gcd(n, d) = 1, n and d coprime to 10 (zero is     *)
(* [0, 1, 0, 0]), so that equal numbers are equal records.  Float          *)
(* rounding, overflow to inf and underflow are outside the model.  A       *)
(* division by zero is modelled as what Python does: ZeroDivisionError.    *)
(***************************************************************************)
EXTENDS Integers, Sequences, FiniteSets, TLC

\* ------------------------------------------------------------ arithmetic

Abs(x) == IF x < 0 THEN -x ELSE x

RECURSIVE Gcd(_, _)
Gcd(a, b) == IF b = 0 THEN a ELSE Gcd(b, a % b)

RECURSIVE IntPow(_, _)
IntPow(b, k) == IF k <= 0 THEN 1 ELSE b * IntPow(b, k - 1)

\* n/d * 2^e2 * 5^e5 (d > 0, gcd(n, d) = 1) brought to the canonical form.
RECURSIVE Canon(_, _, _, _)
Canon(n, d, e2, e5) ==
    IF n = 0 THEN [n |-> 0, d |-> 1, e2 |-> 0, e5 |-> 0]
    ELSE IF n % 2 = 0 THEN Canon(n \div 2, d, e2 + 1, e5)
    ELSE IF n % 5 = 0 THEN Canon(n \div 5, d, e2, e5 + 1)
    ELSE IF d % 2 = 0 THEN Canon(n, d \div 2, e2 - 1, e5)
    ELSE IF d % 5 = 0 THEN Canon(n, d \div 5, e2, e5 - 1)
    ELSE [n |-> n, d |-> d, e2 |-> e2, e5 |-> e5]

\* The number n/d * 2^e2 * 5^e5, for d # 0.
Q(n, d, e2, e5) ==
    LET s == IF d < 0 THEN -1 ELSE 1
        g == Gcd(Abs(n), Abs(d))
    IN  IF n = 0 THEN Canon(0, 1, 0, 0)
        ELSE Canon((s * n) \div g, Abs(d) \div g, e2, e5)

\* An integer literal, a decimal literal (m * 10^e, e.g. 0.65 = Dec(65, -2)).
R(i) == Q(i, 1, 0, 0)
Dec(m, e) == Q(m, 1, e, e)

RIsZero(a) == a.n = 0

RNeg(a) == [a EXCEPT !.n = -a.n]

\* a * b
RMul(a, b) ==
    LET g1 == Gcd(Abs(a.n), b.d)
        g2 == Gcd(Abs(b.n), a.d)
    IN  IF a.n = 0 \/ b.n = 0 THEN R(0)
        ELSE Q((a.n \div g1) * (b.n \div g2), (a.d \div g2) * (b.d \div g1),
               a.e2 + b.e2, a.e5 + b.e5)

\* 1 / b, for b # 0
RInv(b) == Q(IF b.n < 0 THEN -b.d ELSE b.d, Abs(b.n), -b.e2, -b.e5)

\* a / b, for b # 0 (the callers raise ZeroDivisionError before they divide by zero)
RDiv(a, b) == RMul(a, RInv(b))

\* a + b
RAdd(a, b) ==
    LET m2 == IF a.e2 < b.e2 THEN a.e2 ELSE b.e2
        m5 == IF a.e5 < b.e5 THEN a.e5 ELSE b.e5
        g == Gcd(a.d, b.d)
    IN  IF a.n = 0 THEN b
        ELSE IF b.n = 0 THEN a
        ELSE Q(a.n * IntPow(2, a.e2 - m2) * IntPow(5, a.e5 - m5) * (b.d \div g)
                 + b.n * IntPow(2, b.e2 - m2) * IntPow(5, b.e5 - m5) * (a.d \div g),
               (a.d \div g) * b.d, m2, m5)

RSub(a, b) == RAdd(a, RNeg(b))

\* a ** k for a natural exponent k
RECURSIVE RPow(_, _)
RPow(a, k) == IF k = 0 THEN R(1) ELSE RMul(a, RPow(a, k - 1))

\* The order of x * 2^x2 * 5^x5 and y * 2^y2 * 5^y5 (x, y > 0, exponents >= 0):
\* -1, 0 or 1.  The smaller side is multiplied first, so the products stay close
\* and the larger one is never multiplied further than the comparison needs.
RECURSIVE CmpProd(_, _, _, _, _, _)
CmpProd(x, x2, x5, y, y2, y5) ==
    IF x <= y /\ x2 > 0 THEN CmpProd(x * 2, x2 - 1, x5, y, y2, y5)
    ELSE IF x <= y /\ x5 > 0 THEN CmpProd(x * 5, x2, x5 - 1, y, y2, y5)
    ELSE IF x > y /\ y2 > 0 THEN CmpProd(x, x2, x5, y * 2, y2 - 1, y5)
    ELSE IF x > y /\ y5 > 0 THEN CmpProd(x, x2, x5, y * 5, y2, y5 - 1)
    ELSE IF x > y THEN 1
    ELSE IF x < y \/ y2 > 0 \/ y5 > 0 THEN -1
    ELSE 0

\* The order of two positive numbers: -1, 0 or 1.
RCmpPositive(a, b) ==
    LET g == Gcd(a.n, b.n)
        h == Gcd(a.d, b.d)
        k2 == a.e2 - b.e2
        k5 == a.e5 - b.e5
    IN  CmpProd((a.n \div g) * (b.d \div h),
                IF k2 > 0 THEN k2 ELSE 0, IF k5 > 0 THEN k5 ELSE 0,
                (b.n \div g) * (a.d \div h),
                IF k2 < 0 THEN -k2 ELSE 0, IF k5 < 0 THEN -k5 ELSE 0)

\* The order of two numbers: -1, 0 or 1.
RCmp(a, b) ==
    IF a.n > 0 /\ b.n > 0 THEN RCmpPositive(a, b)
    ELSE IF a.n < 0 /\ b.n < 0 THEN RCmpPositive(RNeg(b), RNeg(a))
    ELSE IF a.n < b.n THEN -1
    ELSE IF a.n > b.n THEN 1
    ELSE 0

\* a < b, a <= b, a > b
RLess(a, b) == RCmp(a, b) < 0
RLeq(a, b) == RCmp(a, b) <= 0
RGreater(a, b) == RLess(b, a)
RPositive(a) == a.n > 0

\* The larger of two numbers, as Python's max(a, b): b only when it is greater.
RMax(a, b) == IF RGreater(b, a) THEN b ELSE a

\* ---------------------------------------------------------- result records

NoResult == [kind |-> "None"]

\* @dataclass TraegerBerechnung: the positional fields, the defaults of the rest.
TraegerBerechnung(traeger_typ, laenge, streckenlast, emodul, traegheitsmoment, felder) ==
    [kind |-> "TraegerBerechnung",
     traeger_typ |-> traeger_typ,
     laenge |-> laenge,
     streckenlast |-> streckenlast,
     emodul |-> emodul,
     traegheitsmoment |-> traegheitsmoment,
     biegemoment_max |-> R(0),
     durchbiegung_max |-> R(0),
     querkraft_max |-> R(0),
     felder |-> felder,
     max_feld_index |-> 0,
     grenzdurchbiegung_l300 |-> R(0),
     grenzdurchbiegung_l250 |-> R(0),
     ausnutzung_l300 |-> R(0),
     grenzdurchbiegung_l200 |-> R(0)]

\* What a call does: it returns a record, or it raises and returns nothing.
\* allocated counts the result records the call constructed before it ended.
Returned(r, k) == [error |-> "none", result |-> r, allocated |-> k]
Raised(exc, k) == [error |-> exc, result |-> NoResult, allocated |-> k]

\* -------------------------------------------------------- beam analyzer

\* A variant of einfeld_biegemoment_max that divides by 2.0, the cantilever's divisor.
einfeld_biegemoment_max_div2(streckenlast, laenge) ==
    RDiv(RMul(streckenlast, RPow(laenge, 2)), R(2))

\* (streckenlast * laenge**2) / 8.0
einfeld_biegemoment_max(streckenlast, laenge) ==
    RDiv(RMul(streckenlast, RPow(laenge, 2)), R(8))

\* (streckenlast * laenge) / 2.0
einfeld_querkraft_max(streckenlast, laenge) ==
    RDiv(RMul(streckenlast, laenge), R(2))

\* A variant of emodul_knm2 that forgets the conversion from MPa to kN/m2.
emodul_knm2_unconverted(emodul) == emodul

\* emodul * 1000: MPa to kN/m2
emodul_knm2(emodul) == RMul(emodul, R(1000))

\* 384 * emodul_knm2 * traegheitsmoment, the divisor of the simple-span deflection
einfeld_divisor(emodul, traegheitsmoment) ==
    RMul(RMul(R(384), emodul_knm2(emodul)), traegheitsmoment)

\* A variant of einfeld_durchbiegung_max with the closing parenthesis of the
\* divisor one factor early: ... / (384 * emodul_knm2) * traegheitsmoment * 1000
einfeld_durchbiegung_max_misplaced(laenge, streckenlast, emodul, traegheitsmoment) ==
    RMul(RMul(RDiv(RMul(RMul(R(5), streckenlast), RPow(laenge, 4)),
                   RMul(R(384), emodul_knm2(emodul))),
              traegheitsmoment),
         R(1000))

\* (5 * streckenlast * laenge**4) / (384 * emodul_knm2 * traegheitsmoment) * 1000,
\* for a divisor that is not zero
einfeld_durchbiegung_max(laenge, streckenlast, emodul, traegheitsmoment) ==
    RMul(RDiv(RMul(RMul(R(5), streckenlast), RPow(laenge, 4)),
              einfeld_divisor(emodul, traegheitsmoment)),
         R(1000))

\* (laenge * 1000) / teiler: the limit L/teiler in millimetres
grenzdurchbiegung(laenge, teiler) == RDiv(RMul(laenge, R(1000)), R(teiler))

\* (durchbiegung / grenze) * 100, for a limit that is not zero
ausnutzung(durchbiegung, grenze) == RMul(RDiv(durchbiegung, grenze), R(100))

berechne_einfeldtraeger(laenge, streckenlast, emodul, traegheitsmoment) ==
    LET result == TraegerBerechnung("einfeld", laenge, streckenlast, emodul,
                                    traegheitsmoment, <<>>)
        l300 == grenzdurchbiegung(laenge, 300)
        l250 == grenzdurchbiegung(laenge, 250)
    IN  IF RIsZero(einfeld_divisor(emodul, traegheitsmoment))
        THEN Raised("ZeroDivisionError", 1)
        ELSE LET durchbiegung_max ==
                     einfeld_durchbiegung_max(laenge, streckenlast, emodul, traegheitsmoment)
             IN  Returned(
                   [result EXCEPT
                      !.biegemoment_max = einfeld_biegemoment_max(streckenlast, laenge),
                      !.querkraft_max = einfeld_querkraft_max(streckenlast, laenge),
                      !.durchbiegung_max = durchbiegung_max,
                      !.grenzdurchbiegung_l300 = l300,
                      !.grenzdurchbiegung_l250 = l250,
                      !.ausnutzung_l300 =
                          IF RPositive(l300) THEN ausnutzung(durchbiegung_max, l300)
                          ELSE result.ausnutzung_l300], 1)

\* A variant of krag_biegemoment_max that keeps the simple beam's divisor 8.0.
krag_biegemoment_max_div8(streckenlast, laenge) ==
    RDiv(RMul(streckenlast, RPow(laenge, 2)), R(8))

\* (streckenlast * laenge**2) / 2.0
krag_biegemoment_max(streckenlast, laenge) ==
    RDiv(RMul(streckenlast, RPow(laenge, 2)), R(2))

\* A variant of krag_querkraft_max that keeps the simple beam's q*L/2.
krag_querkraft_max_half(streckenlast, laenge) ==
    RDiv(RMul(streckenlast, laenge), R(2))

\* streckenlast * laenge
krag_querkraft_max(streckenlast, laenge) == RMul(streckenlast, laenge)

\* 8 * emodul_knm2 * traegheitsmoment
krag_divisor(emodul, traegheitsmoment) ==
    RMul(RMul(R(8), emodul_knm2(emodul)), traegheitsmoment)

\* (streckenlast * laenge**4) / (8 * emodul_knm2 * traegheitsmoment) * 1000
krag_durchbiegung_max(laenge, streckenlast, emodul, traegheitsmoment) ==
    RMul(RDiv(RMul(streckenlast, RPow(laenge, 4)),
              krag_divisor(emodul, traegheitsmoment)),
         R(1000))

berechne_kragtraeger(laenge, streckenlast, emodul, traegheitsmoment) ==
    LET result == TraegerBerechnung("krag", laenge, streckenlast, emodul,
                                    traegheitsmoment, <<>>)
        l300 == grenzdurchbiegung(laenge, 300)
        l200 == grenzdurchbiegung(laenge, 200)
    IN  IF RIsZero(krag_divisor(emodul, traegheitsmoment))
        THEN Raised("ZeroDivisionError", 1)
        ELSE LET durchbiegung_max ==
                     krag_durchbiegung_max(laenge, streckenlast, emodul, traegheitsmoment)
             IN  Returned(
                   [result EXCEPT
                      !.biegemoment_max = krag_biegemoment_max(streckenlast, laenge),
                      !.querkraft_max = krag_querkraft_max(streckenlast, laenge),
                      !.durchbiegung_max = durchbiegung_max,
                      !.grenzdurchbiegung_l300 = l300,
                      !.grenzdurchbiegung_l200 = l200,
                      !.ausnutzung_l300 =
                          IF RPositive(l200) THEN ausnutzung(durchbiegung_max, l200)
                          ELSE result.ausnutzung_l300], 1)

\* max(felder) for a non-empty list: the running maximum over the first k entries
RECURSIVE MaxUpTo(_, _)
MaxUpTo(felder, k) ==
    IF k = 1 THEN felder[1] ELSE RMax(MaxUpTo(felder, k - 1), felder[k])

max_felder(felder) == MaxUpTo(felder, Len(felder))

\* A variant of felder_index that finds the last occurrence instead of the first.
felder_index_last(felder, x) ==
    (CHOOSE i \in 1..Len(felder) :
        felder[i] = x /\ \A j \in (i + 1)..Len(felder) : felder[j] # x) - 1

\* felder.index(x) for an x that occurs in felder: the first position, counted from 0
felder_index(felder, x) ==
    (CHOOSE i \in 1..Len(felder) :
        felder[i] = x /\ \A j \in 1..(i - 1) : felder[j] # x) - 1

\* sum(felder)
RECURSIVE SumUpTo(_, _)
SumUpTo(felder, k) ==
    IF k = 0 THEN R(0) ELSE RAdd(SumUpTo(felder, k - 1), felder[k])

sum_felder(felder) == SumUpTo(felder, Len(felder))

\* A variant of durchlauf_felder_supported that also lets four spans through.
durchlauf_felder_supported_upto4(n_felder) == n_felder \in {2, 3, 4}

\* n_felder not in [2, 3] raises ValueError
durchlauf_felder_supported(n_felder) == n_felder \in {2, 3}

\* A variant of durchlauf_reduction with the two factors swapped.
durchlauf_reduction_swapped(n_felder) ==
    IF n_felder = 2 THEN Dec(65, -2) ELSE Dec(7, -1)

\* reduction = 0.7 if n_felder == 2 else 0.65
durchlauf_reduction(n_felder) == IF n_felder = 2 THEN Dec(7, -1) ELSE Dec(65, -2)

\* streckenlast * max_L**2 / 8
durchlauf_biegemoment_max(streckenlast, max_L) ==
    RDiv(RMul(streckenlast, RPow(max_L, 2)), R(8))

\* max(streckenlast * f / 2 for f in felder), over the first k entries
RECURSIVE QuerkraftUpTo(_, _, _)
QuerkraftUpTo(streckenlast, felder, k) ==
    IF k = 1 THEN RDiv(RMul(streckenlast, felder[1]), R(2))
    ELSE RMax(QuerkraftUpTo(streckenlast, felder, k - 1),
              RDiv(RMul(streckenlast, felder[k]), R(2)))

\* A variant of durchlauf_querkraft_max that takes the shear of the first span.
durchlauf_querkraft_max_first(streckenlast, felder) ==
    RDiv(RMul(streckenlast, felder[1]), R(2))

durchlauf_querkraft_max(streckenlast, felder) ==
    QuerkraftUpTo(streckenlast, felder, Len(felder))

\* 384 * emodul_knm2 * traegheitsmoment
durchlauf_divisor(emodul, traegheitsmoment) ==
    RMul(RMul(R(384), emodul_knm2(emodul)), traegheitsmoment)

\* (5 * streckenlast * max_L**4) / (384 * emodul_knm2 * traegheitsmoment) * 1000 * reduction
durchlauf_durchbiegung_max(max_L, streckenlast, emodul, traegheitsmoment, reduction) ==
    RMul(RMul(RDiv(RMul(RMul(R(5), streckenlast), RPow(max_L, 4)),
                   durchlauf_divisor(emodul, traegheitsmoment)),
              R(1000)),
         reduction)

berechne_durchlauftrager(felder, streckenlast, emodul, traegheitsmoment) ==
    LET n_felder == Len(felder)
    IN  IF ~durchlauf_felder_supported(n_felder) THEN Raised("ValueError", 0)
        ELSE
        LET result == TraegerBerechnung("durchlauf", sum_felder(felder), streckenlast,
                                        emodul, traegheitsmoment, felder)
            max_L == max_felder(felder)
            max_idx == felder_index(felder, max_L)
            reduction == durchlauf_reduction(n_felder)
            l300 == grenzdurchbiegung(max_L, 300)
            l250 == grenzdurchbiegung(max_L, 250)
        IN  IF RIsZero(durchlauf_divisor(emodul, traegheitsmoment))
            THEN Raised("ZeroDivisionError", 1)
            ELSE LET durchbiegung_max ==
                         durchlauf_durchbiegung_max(max_L, streckenlast, emodul,
                                                    traegheitsmoment, reduction)
                 IN  Returned(
                       [result EXCEPT
                          !.max_feld_index = max_idx,
                          !.biegemoment_max = durchlauf_biegemoment_max(streckenlast, max_L),
                          !.querkraft_max = durchlauf_querkraft_max(streckenlast, felder),
                          !.durchbiegung_max = durchbiegung_max,
                          !.grenzdurchbiegung_l300 = l300,
                          !.grenzdurchbiegung_l250 = l250,
                          !.ausnutzung_l300 =
                              IF RPositive(l300) THEN ausnutzung(durchbiegung_max, l300)
                              ELSE result.ausnutzung_l300], 1)

\* ----------------------------------------------------------- lookup tables

\* dict.get(key, default)
DictGet(dict, key, default) == IF key \in DOMAIN dict THEN dict[key] ELSE default

materialien ==
    [m \in {"Stahl (S235)", "Stahl (S355)", "Beton C20/25", "Beton C30/37",
            "Beton C35/45", "Holz (Fichte)", "Holz (Tanne)", "Holz (Eiche)",
            "Holz (BSH)", "Aluminium"} |->
        CASE m = "Stahl (S235)" -> R(210000)
          [] m = "Stahl (S355)" -> R(210000)
          [] m = "Beton C20/25" -> R(30000)
          [] m = "Beton C30/37" -> R(33000)
          [] m = "Beton C35/45" -> R(34000)
          [] m = "Holz (Fichte)" -> R(11000)
          [] m = "Holz (Tanne)" -> R(11000)
          [] m = "Holz (Eiche)" -> R(12000)
          [] m = "Holz (BSH)" -> R(14000)
          [] m = "Aluminium" -> R(70000)]

\* A variant of get_material_e_modul whose miss yields 0 instead of the default.
get_material_e_modul_zero_default(material) == DictGet(materialien, material, R(0))

get_material_e_modul(material) == DictGet(materialien, material, R(210000))

ipe_profile ==
    [p \in {"IPE 80", "IPE 100", "IPE 120", "IPE 140", "IPE 160", "IPE 180",
            "IPE 200", "IPE 220", "IPE 240", "IPE 270", "IPE 300", "IPE 330",
            "IPE 360", "IPE 400", "IPE 450", "IPE 500", "IPE 550", "IPE 600"} |->
        CASE p = "IPE 80" -> Dec(801, -9)
          [] p = "IPE 100" -> Dec(171, -8)
          [] p = "IPE 120" -> Dec(318, -8)
          [] p = "IPE 140" -> Dec(541, -8)
          [] p = "IPE 160" -> Dec(869, -8)
          [] p = "IPE 180" -> Dec(1320, -8)
          [] p = "IPE 200" -> Dec(1940, -8)
          [] p = "IPE 220" -> Dec(2770, -8)
          [] p = "IPE 240" -> Dec(3890, -8)
          [] p = "IPE 270" -> Dec(5790, -8)
          [] p = "IPE 300" -> Dec(8360, -8)
          [] p = "IPE 330" -> Dec(11770, -8)
          [] p = "IPE 360" -> Dec(16270, -8)
          [] p = "IPE 400" -> Dec(23130, -8)
          [] p = "IPE 450" -> Dec(33740, -8)
          [] p = "IPE 500" -> Dec(48200, -8)
          [] p = "IPE 550" -> Dec(67120, -8)
          [] p = "IPE 600" -> Dec(92080, -8)]

get_ipe_traegheitsmoment(profil) == DictGet(ipe_profile, profil, Dec(1940, -8))

\* ------------------------------------------------------- frame analyzer

\* @dataclass RahmenBerechnung
RahmenBerechnung(rahmen_typ, breite, hoehe, streckenlast, emodul, traegheitsmoment) ==
    [kind |-> "RahmenBerechnung",
     rahmen_typ |-> rahmen_typ,
     breite |-> breite,
     hoehe |-> hoehe,
     streckenlast |-> streckenlast,
     emodul |-> emodul,
     traegheitsmoment |-> traegheitsmoment,
     schwingungsmoment |-> R(0),
     riegelmoment |-> R(0),
     stuetzkraft_vert |-> R(0),
     stuetzkraft_horiz |-> R(0),
     durchbiegung_riegel |-> R(0),
     grenzdurchbiegung |-> R(0),
     ausnutzung |-> R(0)]

\* A variant of tan_alpha for the 45 degrees the comment beside it speaks of.
tan_alpha_45 == R(1)

\* np.tan(np.radians(30)) = 0.57735..., to five decimal places
tan_alpha == Dec(57735, -5)

\* A variant of rahmen_durchbiegung_riegel that leaves the deflection in metres.
rahmen_durchbiegung_riegel_metres(breite, streckenlast, emodul, traegheitsmoment) ==
    RDiv(RMul(RMul(R(5), streckenlast), RPow(breite, 4)),
         RMul(RMul(R(384), emodul_knm2(emodul)), traegheitsmoment))

\* (5 * streckenlast * breite**4) / (384 * emodul_knm2 * traegheitsmoment) * 1000
rahmen_durchbiegung_riegel(breite, streckenlast, emodul, traegheitsmoment) ==
    RMul(RDiv(RMul(RMul(R(5), streckenlast), RPow(breite, 4)),
              RMul(RMul(R(384), emodul_knm2(emodul)), traegheitsmoment)),
         R(1000))

\* A variant of berechne_rahmen_eingeschossig whose horizontal reaction grows
\* with the height; the other quantities are left at their defaults.
berechne_rahmen_eingeschossig_by_hoehe(breite, hoehe, streckenlast, emodul, traegheitsmoment) ==
    Returned([RahmenBerechnung("eingeschossig", breite, hoehe, streckenlast, emodul,
                               traegheitsmoment)
                EXCEPT !.stuetzkraft_horiz = RMul(streckenlast, hoehe)], 1)

berechne_rahmen_eingeschossig(breite, hoehe, streckenlast, emodul, traegheitsmoment) ==
    LET result == RahmenBerechnung("eingeschossig", breite, hoehe, streckenlast,
                                   emodul, traegheitsmoment)
        grenze == grenzdurchbiegung(breite, 300)
    IN  IF RIsZero(RMul(RMul(R(384), emodul_knm2(emodul)), traegheitsmoment))
        THEN Raised("ZeroDivisionError", 1)
        ELSE LET durchbiegung_riegel ==
                     rahmen_durchbiegung_riegel(breite, streckenlast, emodul,
                                                traegheitsmoment)
             IN  Returned(
                   [result EXCEPT
                      !.schwingungsmoment =
                          RDiv(RMul(streckenlast, RPow(breite, 2)), R(12)),
                      !.riegelmoment =
                          RDiv(RMul(streckenlast, RPow(breite, 2)), R(24)),
                      !.stuetzkraft_vert = RDiv(RMul(streckenlast, breite), R(2)),
                      !.stuetzkraft_horiz =
                          RDiv(RMul(RMul(streckenlast, breite), tan_alpha), R(4)),
                      !.durchbiegung_riegel = durchbiegung_riegel,
                      !.grenzdurchbiegung = grenze,
                      !.ausnutzung =
                          IF RPositive(grenze) THEN ausnutzung(durchbiegung_riegel, grenze)
                          ELSE result.ausnutzung], 1)

\* A variant of zweischossig_stuetzkraft_vert without the second level.
zweischossig_stuetzkraft_vert_single(streckenlast, breite) ==
    RDiv(RMul(streckenlast, breite), R(2))

\* (streckenlast * breite) / 2 * 2
zweischossig_stuetzkraft_vert(streckenlast, breite) ==
    RMul(RDiv(RMul(streckenlast, breite), R(2)), R(2))

berechne_rahmen_zweischossig(breite, hoehe_eg, hoehe_og, streckenlast, emodul, traegheitsmoment) ==
    LET result == RahmenBerechnung("zweischossig", breite, RAdd(hoehe_eg, hoehe_og),
                                   streckenlast, emodul, traegheitsmoment)
        grenze == grenzdurchbiegung(breite, 300)
    IN  IF RIsZero(RMul(RMul(R(384), emodul_knm2(emodul)), traegheitsmoment))
        THEN Raised("ZeroDivisionError", 1)
        ELSE LET durchbiegung_riegel ==
                     rahmen_durchbiegung_riegel(breite, streckenlast, emodul,
                                                traegheitsmoment)
             IN  Returned(
                   [result EXCEPT
                      !.schwingungsmoment =
                          RDiv(RMul(streckenlast, RPow(breite, 2)), R(10)),
                      !.riegelmoment =
                          RDiv(RMul(streckenlast, RPow(breite, 2)), R(20)),
                      !.stuetzkraft_vert =
                          zweischossig_stuetzkraft_vert(streckenlast, breite),
                      !.stuetzkraft_horiz = RDiv(RMul(streckenlast, breite), R(20)),
                      !.durchbiegung_riegel = durchbiegung_riegel,
                      !.grenzdurchbiegung = grenze,
                      !.ausnutzung =
                          IF RPositive(grenze) THEN ausnutzung(durchbiegung_riegel, grenze)
                          ELSE result.ausnutzung], 1)

\* -------------------------------------------------------- slab analyzer

\* @dataclass PlatteBerechnung
PlatteBerechnung(platten_typ, laenge_x, laenge_y, last, emodul, dicke) ==
    [kind |-> "PlatteBerechnung",
     platten_typ |-> platten_typ,
     laenge_x |-> laenge_x,
     laenge_y |-> laenge_y,
     last |-> last,
     emodul |-> emodul,
     dicke |-> dicke,
     max_moment_x |-> R(0),
     max_moment_y |-> R(0),
     max_durchbiegung |-> R(0),
     bewehrung_x |-> R(0),
     bewehrung_y |-> R(0),
     grenzdurchbiegung |-> R(0),
     ausnutzung |-> R(0)]

\* A variant of lambda_seite with the ratio inverted.
lambda_seite_inverted(laenge_x, laenge_y) ==
    IF RPositive(laenge_y) THEN RDiv(laenge_x, laenge_y) ELSE R(1)

\* lambda_seite = laenge_y / laenge_x if laenge_x > 0 else 1.0
lambda_seite(laenge_x, laenge_y) ==
    IF RPositive(laenge_x) THEN RDiv(laenge_y, laenge_x) ELSE R(1)

\* D = (emodul * 1000 * dicke**3) / (12 * (1 - nu**2)) with nu = 0.2
biegesteifigkeit_D(emodul, dicke) ==
    RDiv(RMul(RMul(emodul, R(1000)), RPow(dicke, 3)),
         RMul(R(12), RSub(R(1), RPow(Dec(2, -1), 2))))

\* k_deflection * (last * 1000 * laenge_x**4) / D * 1000 with k_deflection = 0.00406
platte_max_durchbiegung(last, laenge_x, D) ==
    RMul(RDiv(RMul(Dec(406, -5), RMul(RMul(last, R(1000)), RPow(laenge_x, 4))), D),
         R(1000))

\* f_yd = f_yk / gamma_s = 500 / 1.15
f_yd == RDiv(R(500), Dec(115, -2))

\* z = 0.9 * dicke * 1000, in mm
hebelarm_z(dicke) == RMul(RMul(Dec(9, -1), dicke), R(1000))

\* A variant of bewehrung that leaves the area in mm2/m.
bewehrung_mm2(moment, z) == RDiv(RMul(moment, Dec(1, 6)), RMul(z, f_yd))

\* (moment * 1e6) / (z * f_yd) / 100, in cm2/m, for z # 0
bewehrung(moment, z) ==
    RDiv(RDiv(RMul(moment, Dec(1, 6)), RMul(z, f_yd)), R(100))

berechne_platte_einfeld(laenge_x, laenge_y, last, emodul, dicke) ==
    LET result == PlatteBerechnung("einfeld", laenge_x, laenge_y, last, emodul, dicke)
        D == biegesteifigkeit_D(emodul, dicke)
        x_governs == RLeq(R(1), lambda_seite(laenge_x, laenge_y))
        max_moment_x ==
            IF x_governs THEN RDiv(RMul(last, RPow(laenge_x, 2)), R(8))
            ELSE RMul(RDiv(RMul(last, RPow(laenge_y, 2)), R(8)), Dec(5, -1))
        max_moment_y ==
            IF x_governs
            THEN RMul(RDiv(RMul(last, RPow(laenge_x, 2)), R(8)), Dec(5, -1))
            ELSE RDiv(RMul(last, RPow(laenge_y, 2)), R(8))
        grenze == grenzdurchbiegung(laenge_x, 250)
        z_x == hebelarm_z(dicke)
        z_y == hebelarm_z(dicke)
    IN  IF RIsZero(D) \/ RIsZero(RMul(z_x, f_yd)) \/ RIsZero(RMul(z_y, f_yd))
        THEN Raised("ZeroDivisionError", 1)
        ELSE LET max_durchbiegung == platte_max_durchbiegung(last, laenge_x, D)
             IN  Returned(
                   [result EXCEPT
                      !.max_moment_x = max_moment_x,
                      !.max_moment_y = max_moment_y,
                      !.max_durchbiegung = max_durchbiegung,
                      !.grenzdurchbiegung = grenze,
                      !.ausnutzung =
                          IF RPositive(grenze) THEN ausnutzung(max_durchbiegung, grenze)
                          ELSE result.ausnutzung,
                      !.bewehrung_x = bewehrung(max_moment_x, z_x),
                      !.bewehrung_y = bewehrung(max_moment_y, z_y)], 1)

\* A variant of platte_reduction with the beam's factors: 0.7 for two spans, 0.65
\* for any other count.
platte_reduction_beam(felder) ==
    IF felder = 2 THEN Dec(7, -1) ELSE Dec(65, -2)

\* {2: 0.7, 3: 0.65, 4: 0.6}.get(felder, 0.65)
platte_reduction(felder) ==
    DictGet([f \in {2, 3, 4} |->
                CASE f = 2 -> Dec(7, -1) [] f = 3 -> Dec(65, -2) [] f = 4 -> Dec(6, -1)],
            felder, Dec(65, -2))

berechne_platte_durchlauf(laenge_x, laenge_y, last, emodul, dicke, felder) ==
    LET result == PlatteBerechnung("durchlauf", laenge_x, laenge_y, last, emodul, dicke)
        reduction == platte_reduction(felder)
        einfeld == berechne_platte_einfeld(laenge_x, laenge_y, last, emodul, dicke)
        grenze == grenzdurchbiegung(laenge_x, 250)
        z_x == hebelarm_z(dicke)
    IN  IF einfeld.error # "none" THEN Raised(einfeld.error, 1 + einfeld.allocated)
        ELSE
        LET max_moment_x == RMul(einfeld.result.max_moment_x, reduction)
            max_moment_y == RMul(einfeld.result.max_moment_y, reduction)
            max_durchbiegung == RMul(einfeld.result.max_durchbiegung, reduction)
        IN  Returned(
              [result EXCEPT
                 !.max_moment_x = max_moment_x,
                 !.max_moment_y = max_moment_y,
                 !.max_durchbiegung = max_durchbiegung,
                 !.grenzdurchbiegung = grenze,
                 !.ausnutzung =
                     IF RPositive(grenze) THEN ausnutzung(max_durchbiegung, grenze)
                     ELSE result.ausnutzung,
                 !.bewehrung_x = bewehrung(max_moment_x, z_x),
                 !.bewehrung_y = bewehrung(max_moment_y, z_x)], 1 + einfeld.allocated)

\* ------------------------------------------------------------ serialization

\* fields(TraegerBerechnung), fields(RahmenBerechnung), fields(PlatteBerechnung):
\* the names the dataclasses declare.
traeger_fields ==
    {"traeger_typ", "laenge", "streckenlast", "emodul", "traegheitsmoment",
     "biegemoment_max", "durchbiegung_max", "querkraft_max", "felder",
     "max_feld_index", "grenzdurchbiegung_l300", "grenzdurchbiegung_l250",
     "ausnutzung_l300", "grenzdurchbiegung_l200"}

rahmen_fields ==
    {"rahmen_typ", "breite", "hoehe", "streckenlast", "emodul", "traegheitsmoment",
     "schwingungsmoment", "riegelmoment", "stuetzkraft_vert", "stuetzkraft_horiz",
     "durchbiegung_riegel", "grenzdurchbiegung", "ausnutzung"}

platte_fields ==
    {"platten_typ", "laenge_x", "laenge_y", "last", "emodul", "dicke",
     "max_moment_x", "max_moment_y", "max_durchbiegung", "bewehrung_x",
     "bewehrung_y", "grenzdurchbiegung", "ausnutzung"}

\* dataclasses.fields(obj), by the class of obj
fields(obj) ==
    CASE obj.kind = "TraegerBerechnung" -> traeger_fields
      [] obj.kind = "RahmenBerechnung" -> rahmen_fields
      [] obj.kind = "PlatteBerechnung" -> platte_fields

\* A variant of to_dict that leaves out the cantilever's limit, the field
\* declared last.
to_dict_without_l200(self) ==
    [f \in fields(self) \ {"grenzdurchbiegung_l200"} |-> self[f]]

\* asdict(self): a dict of the declared fields with copies of their values
to_dict(self) == [f \in fields(self) |-> self[f]]

\* --------------------------------------------------------------- formatting

\* f"{self.<field>:<format>}": the text of a number is fixed by the value and the
\* format specification; the item keeps both and the field it was read from.
\* (Labels are written without umlauts.)
Fmt(field, value, format) == [field |-> field, value |-> value, format |-> format]

\* One line of a text block: its fixed words and the items printed in it.
Line(label, items) == [label |-> label, items |-> items]

\* The lines format_ergebnis appends for a TraegerBerechnung
format_traeger(result) ==
    << Line("Traegertyp", <<Fmt("traeger_typ", result.traeger_typ, "")>>),
       Line("Laenge m", <<Fmt("laenge", result.laenge, ".2f")>>),
       Line("Streckenlast kN/m", <<Fmt("streckenlast", result.streckenlast, ".2f")>>),
       Line("E-Modul MPa", <<Fmt("emodul", result.emodul, ",.0f")>>),
       Line("Traegheitsmoment m4",
            <<Fmt("traegheitsmoment", result.traegheitsmoment, ".4e")>>),
       Line("", <<>>),
       Line("Ergebnisse:", <<>>),
       Line("Max. Biegemoment kNm",
            <<Fmt("biegemoment_max", result.biegemoment_max, ".2f")>>),
       Line("Max. Querkraft kN", <<Fmt("querkraft_max", result.querkraft_max, ".2f")>>),
       Line("Max. Durchbiegung mm",
            <<Fmt("durchbiegung_max", result.durchbiegung_max, ".2f")>>),
       Line("", <<>>),
       Line("Ausnutzung L/300 %",
            <<Fmt("ausnutzung_l300", result.ausnutzung_l300, ".1f")>>) >>

\* The lines format_ergebnis appends for a RahmenBerechnung
format_rahmen(result) ==
    << Line("Rahmentyp", <<Fmt("rahmen_typ", result.rahmen_typ, "")>>),
       Line("Breite m", <<Fmt("breite", result.breite, ".2f")>>),
       Line("Hoehe m", <<Fmt("hoehe", result.hoehe, ".2f")>>),
       Line("Streckenlast kN/m", <<Fmt("streckenlast", result.streckenlast, ".2f")>>),
       Line("", <<>>),
       Line("Ergebnisse:", <<>>),
       Line("Stuetzmoment kNm",
            <<Fmt("schwingungsmoment", result.schwingungsmoment, ".2f")>>),
       Line("Riegelmoment kNm", <<Fmt("riegelmoment", result.riegelmoment, ".2f")>>),
       Line("Vert. Auflagerkraft kN",
            <<Fmt("stuetzkraft_vert", result.stuetzkraft_vert, ".2f")>>),
       Line("Horiz. Auflagerkraft kN",
            <<Fmt("stuetzkraft_horiz", result.stuetzkraft_horiz, ".2f")>>),
       Line("Durchbiegung mm",
            <<Fmt("durchbiegung_riegel", result.durchbiegung_riegel, ".2f")>>),
       Line("", <<>>),
       Line("Ausnutzung %", <<Fmt("ausnutzung", result.ausnutzung, ".1f")>>) >>

\* The lines format_ergebnis appends for a PlatteBerechnung
format_platte(result) ==
    << Line("Platventyp", <<Fmt("platten_typ", result.platten_typ, "")>>),
       Line("Abmessungen x m", <<Fmt("laenge_x", result.laenge_x, ".2f"),
                                 Fmt("laenge_y", result.laenge_y, ".2f")>>),
       Line("Plattendicke mm", <<Fmt("dicke", RMul(result.dicke, R(1000)), ".0f")>>),
       Line("Flaechenlast kN/m2", <<Fmt("last", result.last, ".2f")>>),
       Line("", <<>>),
       Line("Ergebnisse:", <<>>),
       Line("Max. Moment x kNm/m", <<Fmt("max_moment_x", result.max_moment_x, ".2f")>>),
       Line("Max. Moment y kNm/m", <<Fmt("max_moment_y", result.max_moment_y, ".2f")>>),
       Line("Durchbiegung mm",
            <<Fmt("max_durchbiegung", result.max_durchbiegung, ".2f")>>),
       Line("Bewehrung x cm2/m", <<Fmt("bewehrung_x", result.bewehrung_x, ".2f")>>),
       Line("Bewehrung y cm2/m", <<Fmt("bewehrung_y", result.bewehrung_y, ".2f")>>),
       Line("", <<>>),
       Line("Ausnutzung %", <<Fmt("ausnutzung", result.ausnutzung, ".1f")>>) >>

\* format_ergebnis(result): header, the lines of the result's class (none for any
\* other value), footer
format_ergebnis(result) ==
    << Line("==================================================", <<>>),
       Line("STATISCHE BERECHNUNG", <<>>),
       Line("==================================================", <<>>) >>
    \o (CASE result.kind = "TraegerBerechnung" -> format_traeger(result)
          [] result.kind = "RahmenBerechnung" -> format_rahmen(result)
          [] result.kind = "PlatteBerechnung" -> format_platte(result)
          [] OTHER -> <<>>)
    \o << Line("==================================================", <<>>) >>

\* ------------------------------------------------------- explanation, report

\* The presentation function by returned text.
Text(by, text) == [by |-> by, error |-> "none", text |-> text]

\* obj.<name> exists: a Python attribute read raises AttributeError otherwise.
hasattr(obj, name) == name \in DOMAIN obj \ {"kind"}

\* The presentation function by raised exc instead of returning text.
TextRaised(by, exc) == [by |-> by, error |-> exc, text |-> <<>>]

\* The three-way verdict on result.ausnutzung_l300 that the explanation, the
\* report and the app share: <= 100, <= 120, else.
bewertung_l300(result) ==
    IF RLeq(result.ausnutzung_l300, R(100)) THEN "im zulaessigen Bereich (L/300)"
    ELSE IF RLeq(result.ausnutzung_l300, R(120)) THEN "ueberschreitet L/300 leicht"
    ELSE "ueberschreitet L/300 deutlich"

\* StatikLLM._generate_intro
generate_intro(result) ==
    << Line("Berechnungsuebersicht: Einfeldtraeger",
            << Fmt("laenge", result.laenge, ".1f"),
               Fmt("streckenlast", result.streckenlast, ".1f"),
               Fmt("biegemoment_max", result.biegemoment_max, ".2f"),
               Fmt("querkraft_max", result.querkraft_max, ".2f"),
               Fmt("durchbiegung_max", result.durchbiegung_max, ".2f") >>) >>

\* StatikLLM._interpret_results; the excess over 100 % is printed from
\* ausnutzung_l300
interpret_results(result) ==
    << IF RLeq(result.ausnutzung_l300, R(100))
       THEN Line("Die Durchbiegung liegt im zulaessigen Bereich: unter dem Grenzwert (L/300)",
                 << Fmt("durchbiegung_max", result.durchbiegung_max, ".2f"),
                    Fmt("grenzdurchbiegung_l300", result.grenzdurchbiegung_l300, ".2f"),
                    Fmt("ausnutzung_l300", result.ausnutzung_l300, ".1f") >>)
       ELSE IF RLeq(result.ausnutzung_l300, R(120))
       THEN Line("Die Durchbiegung ueberschreitet den Grenzwert leicht",
                 << Fmt("durchbiegung_max", result.durchbiegung_max, ".2f"),
                    Fmt("ausnutzung_l300 - 100", result.ausnutzung_l300, ".1f"),
                    Fmt("grenzdurchbiegung_l300", result.grenzdurchbiegung_l300, ".2f") >>)
       ELSE Line("Die Durchbiegung ueberschreitet den Grenzwert deutlich",
                 << Fmt("durchbiegung_max", result.durchbiegung_max, ".2f"),
                    Fmt("ausnutzung_l300 - 100", result.ausnutzung_l300, ".1f") >>),
       Line("Das maximale Biegemoment tritt in Feldmitte auf",
            << Fmt("biegemoment_max", result.biegemoment_max, ".2f") >>) >>

\* StatikLLM._generate_recommendation
generate_recommendation(result) ==
    << IF RLeq(result.ausnutzung_l300, R(100))
       THEN Line("Empfehlung: Die Konstruktion scheint geeignet zu sein", <<>>)
       ELSE Line("Empfohlene Massnahmen",
                 << Fmt("ausnutzung_l300", result.ausnutzung_l300, ".1f") >>) >>

\* The first n entries of a list: list[:n]
Head3(list) == SubSeq(list, 1, IF Len(list) < 3 THEN Len(list) ELSE 3)

\* StatikLLM._suggest_profiles: the first three of the seven profiles whose
\* inertia in cm4 reaches 90 % of the required one, or a remark that none does.
suggest_profiles(erforderliches_i) ==
    LET profile == <<"IPE 180", "IPE 200", "IPE 220", "IPE 240", "IPE 270", "IPE 300",
                     "IPE 330">>
        i_wert(profil) == RMul(get_ipe_traegheitsmoment(profil), Dec(1, 8))
        geeignet(profil) == RLeq(RMul(erforderliches_i, Dec(9, -1)), i_wert(profil))
        vorschlaege == SelectSeq(profile, geeignet)
    IN  IF vorschlaege # <<>>
        THEN Line("Folgende Profile waeren geeignet",
                  [i \in 1..Len(Head3(vorschlaege)) |->
                      Fmt(vorschlaege[i], i_wert(vorschlaege[i]), ".0f")])
        ELSE Line("Ein groesseres Profil als IPE 330 wird benoetigt", <<>>)

\* StatikLLM._answer_optimierung: the inertia required for L/300, in cm4
answer_optimierung(result) ==
    LET divisor == RMul(RMul(RMul(R(384), result.emodul), R(1000)),
                        RDiv(RMul(result.laenge, R(1000)), R(300)))
        erforderliches_i ==
            RMul(RDiv(RMul(RMul(R(5), result.streckenlast), RPow(result.laenge, 4)),
                      divisor),
                 Dec(1, 8))
    IN  IF RIsZero(divisor) THEN Raised("ZeroDivisionError", 0)
        ELSE Returned(
               << Line("Optimierungsmoeglichkeiten",
                       << Fmt("traegheitsmoment",
                              RMul(result.traegheitsmoment, Dec(1, 8)), ".0f"),
                          Fmt("erforderliches_i", erforderliches_i, ".0f") >>),
                  suggest_profiles(erforderliches_i) >>, 0)

\* StatikLLM._answer_deckenbalken
answer_deckenbalken(result) ==
    << Line(IF RLeq(result.ausnutzung_l300, R(100))
            THEN "Deckenbalken im Wohnungsbau: akzeptabel"
            ELSE "Deckenbalken im Wohnungsbau: groesseres Profil empfohlen",
            << Fmt("durchbiegung_max", result.durchbiegung_max, ".2f") >>) >>

\* StatikLLM._answer_specific_question; frage is the set of lower-case words the
\* question contains.
answer_specific_question(result, frage) ==
    IF "deckenbalken" \in frage \/ "wohnungsbau" \in frage
    THEN Returned(answer_deckenbalken(result), 0)
    ELSE IF "sicherheit" \in frage \/ "faktor" \in frage
    THEN Returned(<< Line("Sicherheit und Teilsicherheitsbeiwerte", <<>>) >>, 0)
    ELSE IF "verbessern" \in frage \/ "optimieren" \in frage
    THEN answer_optimierung(result)
    ELSE Returned(
           << Line(IF RLeq(result.ausnutzung_l300, R(100))
                   THEN "Antwort: Die Durchbiegung liegt im zulaessigen Bereich"
                   ELSE "Antwort: Eine Ueberdimensionierung des Traegers wird empfohlen",
                   << Fmt("durchbiegung_max", result.durchbiegung_max, ".2f"),
                      Fmt("ausnutzung_l300", result.ausnutzung_l300, ".1f") >>) >>, 0)

\* The attributes generate_explanation reads of result, whatever the question.
explanation_attrs ==
    {"laenge", "streckenlast", "biegemoment_max", "querkraft_max", "durchbiegung_max",
     "ausnutzung_l300", "grenzdurchbiegung_l300"}

\* StatikLLM.generate_explanation(result, frage); frage = {} is no question.
generate_explanation(result, frage) ==
    IF \E name \in explanation_attrs : ~hasattr(result, name)
    THEN TextRaised("generate_explanation", "AttributeError")
    ELSE LET antwort == IF frage # {} THEN answer_specific_question(result, frage)
                        ELSE Returned(<<>>, 0)
         IN  IF antwort.error # "none"
             THEN TextRaised("generate_explanation", antwort.error)
             ELSE Text("generate_explanation",
                       generate_intro(result) \o interpret_results(result)
                       \o generate_recommendation(result) \o antwort.result)

\* PDFReport.generate_report and its text fallback print the same rows and the
\* same verdict; material and profil are the caller's labels.
generate_report(result, material, profil) ==
    IF \E name \in {"laenge", "streckenlast", "emodul", "biegemoment_max",
                    "querkraft_max", "durchbiegung_max", "grenzdurchbiegung_l300",
                    "ausnutzung_l300"} : ~hasattr(result, name)
    THEN TextRaised("generate_report", "AttributeError")
    ELSE Text("generate_report",
              << Line("1. Eingabeparameter",
                      << Fmt("laenge", result.laenge, ".2f"),
                         Fmt("streckenlast", result.streckenlast, ".2f"),
                         Fmt("material", material, ""),
                         Fmt("profil", profil, ""),
                         Fmt("emodul", result.emodul, ",.0f") >>),
                 Line("2. Berechnungsergebnisse",
                      << Fmt("biegemoment_max", result.biegemoment_max, ".2f"),
                         Fmt("querkraft_max", result.querkraft_max, ".2f"),
                         Fmt("durchbiegung_max", result.durchbiegung_max, ".2f"),
                         Fmt("grenzdurchbiegung_l300", result.grenzdurchbiegung_l300, ".2f"),
                         Fmt("ausnutzung_l300", result.ausnutzung_l300, ".1f") >>),
                 Line("3. Bewertung", <<Fmt("bewertung", bewertung_l300(result), "")>>),
                 Line("4. Haftungsausschluss", <<>>) >>)

\* ------------------------------------------------------------- the caller

\* Longest span list a caller passes, largest slab span count a caller passes.
MaxFelder == 4
MaxPlattenFelder == 5

\* The values a caller passes: non-positive ones and valid ones of each kind.
Laengen == {R(-2), R(0), R(3), Dec(45, -1), R(6)}
Lasten == {R(-1), R(0), R(5), Dec(75, -1)}
EModule == {R(-1), R(0), R(33000), R(210000)}
Traegheitsmomente == {Dec(-1940, -8), R(0), Dec(1940, -8), Dec(8360, -8)}
FeldLaengen == {R(0), R(4), R(5)}
Hoehen == {R(0), R(3), R(4)}
Dicken == {Dec(-2, -1), R(0), Dec(2, -1), Dec(25, -2)}
FelderListen == UNION {[1..k -> FeldLaengen] : k \in 0..MaxFelder}
PlattenFelder == 0..MaxPlattenFelder
MaterialNamen == DOMAIN materialien \cup {"Titan", ""}
ProfilNamen == DOMAIN ipe_profile \cup {"HEB 200", "ipe 200"}

\* The questions a caller asks: none, the app's default question, and questions
\* with the key words of each answer (two of them with words of two answers).
Fragen ==
    {{}, {"geeignet"}, {"deckenbalken"}, {"sicherheit", "faktor"}, {"optimieren"},
     {"wohnungsbau", "optimieren"}}

\* The number of concurrent callers; each call holds at most two records at a
\* time (berechne_platte_durchlauf: its own and the single-span one).
NThreads == 2
Threads == 1..NThreads
Objects == 1..(2 * NThreads)

VARIABLES
    pc,         \* "idle": no call made; "returned": the last call has ended
    call,       \* the operation called last and its arguments
    result,     \* what the call returned: a result record, a number, or NoResult
    error,      \* the exception the call raised, "none" when it returned
    allocated,  \* the number of result records the call constructed
    exported,   \* the dict to_dict returned for the result, or NoDict
    output,     \* the text a presentation function returned last, or NoOutput
    threads,    \* concurrent callers: each one's position, call, object and return
    heap,       \* the objects the concurrent calls have allocated
    last_result, \* st.session_state.last_result of the app
    page        \* what the last run of the app's script showed

vars == <<pc, call, result, error, allocated, exported, output, threads, heap,
          last_result, page>>

\* The state of the single caller, of the concurrent callers, of the app.
caller_vars == <<pc, call, result, error, allocated, exported, output>>
conc_vars == <<threads, heap>>
app_vars == <<last_result, page>>

NoOutput == [by |-> "none"]

NoDict == [kind |-> "None"]

NoCall == [op |-> "none"]

\* A heap cell holding no object.
Free == [kind |-> "free"]

\* A concurrent caller that is not in a call; 0 is no object.
IdleThread ==
    [pc |-> "idle", call |-> NoCall, fn |-> "none", ref |-> 0, outer |-> 0,
     einfeld |-> 0, error |-> "none", value |-> NoResult]

\* What a run of the app's script shows: the st.error of the calculation step,
\* its verdict, the detail block, the explanation, and the exception that ended
\* the run.
Page(run, err, verdict, detail, explanation, crashed) ==
    [run |-> run, error |-> err, verdict |-> verdict, detail |-> detail,
     explanation |-> explanation, crashed |-> crashed]

\* The app's script has not run yet.
NoPage == Page("none", "none", "none", NoOutput, NoOutput, "none")

Init ==
    /\ pc = "idle"
    /\ call = NoCall
    /\ result = NoResult
    /\ error = "none"
    /\ allocated = 0
    /\ exported = NoDict
    /\ output = NoOutput
    /\ threads = [t \in Threads |-> IdleThread]
    /\ heap = [o \in Objects |-> Free]
    /\ last_result = NoResult
    /\ page = NoPage

\* The call c ended with outcome o.
Deliver(c, o) ==
    /\ pc' = "returned"
    /\ call' = c
    /\ result' = o.result
    /\ error' = o.error
    /\ allocated' = o.allocated
    /\ exported' = NoDict
    /\ output' = NoOutput
    /\ UNCHANGED <<conc_vars, app_vars>>

Einfeldtraeger ==
    /\ pc = "idle"
    /\ \E laenge \in Laengen, streckenlast \in Lasten, emodul \in EModule,
          traegheitsmoment \in Traegheitsmomente :
          Deliver([op |-> "berechne_einfeldtraeger", laenge |-> laenge,
                   streckenlast |-> streckenlast, emodul |-> emodul,
                   traegheitsmoment |-> traegheitsmoment],
                  berechne_einfeldtraeger(laenge, streckenlast, emodul, traegheitsmoment))

Kragtraeger ==
    /\ pc = "idle"
    /\ \E laenge \in Laengen, streckenlast \in Lasten, emodul \in EModule,
          traegheitsmoment \in Traegheitsmomente :
          Deliver([op |-> "berechne_kragtraeger", laenge |-> laenge,
                   streckenlast |-> streckenlast, emodul |-> emodul,
                   traegheitsmoment |-> traegheitsmoment],
                  berechne_kragtraeger(laenge, streckenlast, emodul, traegheitsmoment))

Durchlauftraeger ==
    /\ pc = "idle"
    /\ \E felder \in FelderListen, streckenlast \in Lasten, emodul \in EModule,
          traegheitsmoment \in Traegheitsmomente :
          Deliver([op |-> "berechne_durchlauftrager", felder |-> felder,
                   streckenlast |-> streckenlast, emodul |-> emodul,
                   traegheitsmoment |-> traegheitsmoment],
                  berechne_durchlauftrager(felder, streckenlast, emodul, traegheitsmoment))

RahmenEingeschossig ==
    /\ pc = "idle"
    /\ \E breite \in Laengen, hoehe \in Hoehen, streckenlast \in Lasten,
          emodul \in EModule, traegheitsmoment \in Traegheitsmomente :
          Deliver([op |-> "berechne_rahmen_eingeschossig", breite |-> breite,
                   hoehe |-> hoehe, streckenlast |-> streckenlast, emodul |-> emodul,
                   traegheitsmoment |-> traegheitsmoment],
                  berechne_rahmen_eingeschossig(breite, hoehe, streckenlast, emodul,
                                                traegheitsmoment))

RahmenZweischossig ==
    /\ pc = "idle"
    /\ \E breite \in Laengen, hoehe_eg \in Hoehen, hoehe_og \in Hoehen,
          streckenlast \in Lasten, emodul \in EModule,
          traegheitsmoment \in Traegheitsmomente :
          Deliver([op |-> "berechne_rahmen_zweischossig", breite |-> breite,
                   hoehe_eg |-> hoehe_eg, hoehe_og |-> hoehe_og,
                   streckenlast |-> streckenlast, emodul |-> emodul,
                   traegheitsmoment |-> traegheitsmoment],
                  berechne_rahmen_zweischossig(breite, hoehe_eg, hoehe_og, streckenlast,
                                               emodul, traegheitsmoment))

PlatteEinfeld ==
    /\ pc = "idle"
    /\ \E laenge_x \in Laengen, laenge_y \in Laengen, last \in Lasten,
          emodul \in EModule, dicke \in Dicken :
          Deliver([op |-> "berechne_platte_einfeld", laenge_x |-> laenge_x,
                   laenge_y |-> laenge_y, last |-> last, emodul |-> emodul,
                   dicke |-> dicke],
                  berechne_platte_einfeld(laenge_x, laenge_y, last, emodul, dicke))

PlatteDurchlauf ==
    /\ pc = "idle"
    /\ \E laenge_x \in Laengen, laenge_y \in Laengen, last \in Lasten,
          emodul \in EModule, dicke \in Dicken, felder \in PlattenFelder :
          Deliver([op |-> "berechne_platte_durchlauf", laenge_x |-> laenge_x,
                   laenge_y |-> laenge_y, last |-> last, emodul |-> emodul,
                   dicke |-> dicke, felder |-> felder],
                  berechne_platte_durchlauf(laenge_x, laenge_y, last, emodul, dicke,
                                            felder))

MaterialEModul ==
    /\ pc = "idle"
    /\ \E material \in MaterialNamen :
          Deliver([op |-> "get_material_e_modul", material |-> material],
                  Returned([kind |-> "float", value |-> get_material_e_modul(material)], 0))

IpeTraegheitsmoment ==
    /\ pc = "idle"
    /\ \E profil \in ProfilNamen :
          Deliver([op |-> "get_ipe_traegheitsmoment", profil |-> profil],
                  Returned([kind |-> "float", value |-> get_ipe_traegheitsmoment(profil)], 0))

\* The caller is done with the outcome of the last call.
Drop ==
    /\ pc = "returned"
    /\ pc' = "idle"
    /\ call' = NoCall
    /\ result' = NoResult
    /\ error' = "none"
    /\ allocated' = 0
    /\ exported' = NoDict
    /\ output' = NoOutput
    /\ UNCHANGED <<conc_vars, app_vars>>

\* The caller serializes the result record it holds.
ToDict ==
    /\ pc = "returned"
    /\ error = "none"
    /\ result.kind \in {"TraegerBerechnung", "RahmenBerechnung", "PlatteBerechnung"}
    /\ exported' = to_dict(result)
    /\ UNCHANGED <<pc, call, result, error, allocated, output, conc_vars, app_vars>>

\* The caller formats the value the call returned.
FormatErgebnis ==
    /\ pc = "returned"
    /\ error = "none"
    /\ output' = Text("format_ergebnis", format_ergebnis(result))
    /\ UNCHANGED <<pc, call, result, error, allocated, exported, conc_vars, app_vars>>

\* The caller asks for the explanation of the value the call returned.
GenerateExplanation ==
    /\ pc = "returned"
    /\ error = "none"
    /\ \E frage \in Fragen : output' = generate_explanation(result, frage)
    /\ UNCHANGED <<pc, call, result, error, allocated, exported, conc_vars, app_vars>>

\* The caller asks for the report on the value the call returned.
GenerateReport ==
    /\ pc = "returned"
    /\ error = "none"
    /\ output' = generate_report(result, "Stahl (S235)", "IPE 200")
    /\ UNCHANGED <<pc, call, result, error, allocated, exported, conc_vars, app_vars>>

\* The caller assigns to the first entry of the span list it passed to
\* berechne_durchlauftrager. The record was constructed with felder=felder: its
\* felder field is that list object, not a copy, and shows the assignment.
ChangeFelder ==
    /\ pc = "returned"
    /\ error = "none"
    /\ call.op = "berechne_durchlauftrager"
    /\ result.felder = call.felder
    /\ \E v \in FeldLaengen \ {call.felder[1]} :
          result' = [result EXCEPT !.felder[1] = v]
    /\ UNCHANGED <<pc, call, error, allocated, exported, output, conc_vars, app_vars>>

Next ==
    \/ Einfeldtraeger
    \/ Kragtraeger
    \/ Durchlauftraeger
    \/ RahmenEingeschossig
    \/ RahmenZweischossig
    \/ PlatteEinfeld
    \/ PlatteDurchlauf
    \/ MaterialEModul
    \/ IpeTraegheitsmoment
    \/ ToDict
    \/ FormatErgebnis
    \/ GenerateExplanation
    \/ GenerateReport
    \/ ChangeFelder
    \/ Drop

Spec == Init /\ [][Next]_vars

\* ------------------------------------------------------ concurrent callers

\* Callers on several threads run the analyzers and the lookup statement by
\* statement.  Every object a call constructs lives in heap; the call reads and
\* writes it through its reference.

\* A variant of NewObject that hands every constructor the same cell.
NewObject_shared(h, t) == 1

\* The cells the allocator serves thread t from
Arena(t) == {2 * t - 1, 2 * t}

\* Constructing an object yields one no live object shares: here the free cell
\* of the lowest number in the thread's arena.
NewObject(h, t) ==
    CHOOSE o \in Arena(t) : h[o] = Free /\ \A p \in Arena(t) : h[p] = Free => o <= p

\* The calls the concurrent callers make.
ConcCalls ==
    {[op |-> "berechne_einfeldtraeger", laenge |-> l, streckenlast |-> R(5),
      emodul |-> R(210000), traegheitsmoment |-> Dec(1940, -8)] : l \in {R(3), R(6)}}
    \cup {[op |-> "berechne_einfeldtraeger", laenge |-> R(6), streckenlast |-> R(5),
           emodul |-> R(0), traegheitsmoment |-> Dec(1940, -8)]}
    \cup {[op |-> "berechne_platte_durchlauf", laenge_x |-> R(6), laenge_y |-> R(3),
           last |-> R(5), emodul |-> R(33000), dicke |-> Dec(2, -1), felder |-> f] :
             f \in {2, 4}}
    \cup {[op |-> "get_material_e_modul", material |-> m] : m \in {"Aluminium", "Titan"}}

\* The record the constructor call of function fn builds from the arguments c
constructed(fn, c) ==
    CASE fn = "berechne_einfeldtraeger" ->
             TraegerBerechnung("einfeld", c.laenge, c.streckenlast, c.emodul,
                               c.traegheitsmoment, <<>>)
      [] fn = "berechne_platte_einfeld" ->
             PlatteBerechnung("einfeld", c.laenge_x, c.laenge_y, c.last, c.emodul, c.dicke)
      [] fn = "berechne_platte_durchlauf" ->
             PlatteBerechnung("durchlauf", c.laenge_x, c.laenge_y, c.last, c.emodul,
                              c.dicke)
      [] fn = "get_material_e_modul" -> [kind |-> "dict", table |-> materialien]

\* berechne_einfeldtraeger, the assignments to result up to the limits
assign_einfeldtraeger(c, obj) ==
    IF RIsZero(einfeld_divisor(c.emodul, c.traegheitsmoment))
    THEN Raised("ZeroDivisionError", 0)
    ELSE Returned(
           [obj EXCEPT
              !.biegemoment_max = einfeld_biegemoment_max(c.streckenlast, c.laenge),
              !.querkraft_max = einfeld_querkraft_max(c.streckenlast, c.laenge),
              !.durchbiegung_max =
                  einfeld_durchbiegung_max(c.laenge, c.streckenlast, c.emodul,
                                           c.traegheitsmoment),
              !.grenzdurchbiegung_l300 = grenzdurchbiegung(c.laenge, 300),
              !.grenzdurchbiegung_l250 = grenzdurchbiegung(c.laenge, 250)], 0)

\* berechne_platte_einfeld, the assignments to result up to the limit
assign_platte_einfeld(c, obj) ==
    LET D == biegesteifigkeit_D(c.emodul, c.dicke)
        governing(l) == RDiv(RMul(c.last, RPow(l, 2)), R(8))
        with_moments ==
            IF RLeq(R(1), lambda_seite(c.laenge_x, c.laenge_y))
            THEN LET mx == [obj EXCEPT !.max_moment_x = governing(c.laenge_x)]
                 IN  [mx EXCEPT !.max_moment_y = RMul(mx.max_moment_x, Dec(5, -1))]
            ELSE LET my == [obj EXCEPT !.max_moment_y = governing(c.laenge_y)]
                 IN  [my EXCEPT !.max_moment_x = RMul(my.max_moment_y, Dec(5, -1))]
    IN  IF RIsZero(D) THEN Raised("ZeroDivisionError", 0)
        ELSE Returned(
               [with_moments EXCEPT
                  !.max_durchbiegung = platte_max_durchbiegung(c.last, c.laenge_x, D),
                  !.grenzdurchbiegung = grenzdurchbiegung(c.laenge_x, 250)], 0)

\* berechne_platte_durchlauf, the assignments to result up to the limit; einfeld
\* is the record berechne_platte_einfeld returned
assign_platte_durchlauf(c, obj, einfeld) ==
    LET reduction == platte_reduction(c.felder)
    IN  Returned(
          [obj EXCEPT
             !.max_moment_x = RMul(einfeld.max_moment_x, reduction),
             !.max_moment_y = RMul(einfeld.max_moment_y, reduction),
             !.max_durchbiegung = RMul(einfeld.max_durchbiegung, reduction),
             !.grenzdurchbiegung = grenzdurchbiegung(c.laenge_x, 250)], 0)

\* if result.<limit> > 0: result.<utilization> = (result.<deflection> / result.<limit>) * 100
assign_ausnutzung(obj) ==
    IF obj.kind = "TraegerBerechnung"
    THEN IF RPositive(obj.grenzdurchbiegung_l300)
         THEN [obj EXCEPT !.ausnutzung_l300 =
                              ausnutzung(obj.durchbiegung_max, obj.grenzdurchbiegung_l300)]
         ELSE obj
    ELSE IF RPositive(obj.grenzdurchbiegung)
         THEN [obj EXCEPT !.ausnutzung =
                              ausnutzung(obj.max_durchbiegung, obj.grenzdurchbiegung)]
         ELSE obj

\* result.bewehrung_x, result.bewehrung_y from the moments result holds
assign_bewehrung(c, obj) ==
    LET z == hebelarm_z(c.dicke)
    IN  IF RIsZero(RMul(z, f_yd)) THEN Raised("ZeroDivisionError", 0)
        ELSE Returned([obj EXCEPT !.bewehrung_x = bewehrung(obj.max_moment_x, z),
                                  !.bewehrung_y = bewehrung(obj.max_moment_y, z)], 0)

\* The class of the object the body of function fn works on
result_class(fn) ==
    CASE fn = "berechne_einfeldtraeger" -> "TraegerBerechnung"
      [] fn \in {"berechne_platte_einfeld", "berechne_platte_durchlauf"} ->
             "PlatteBerechnung"
      [] fn = "get_material_e_modul" -> "dict"

\* The thread leaves its call with exception exc.
ThreadRaises(t, exc) ==
    threads' = [threads EXCEPT ![t].pc = "returned", ![t].error = exc]

\* The thread's next statement works on the object obj it holds; a statement
\* applied to an object of another class raises.
Holds(t, obj) == obj.kind = result_class(threads[t].fn)

\* A thread calls an analyzer or the lookup.
Begin(t) ==
    /\ threads[t].pc = "idle"
    /\ \E c \in ConcCalls :
          threads' = [threads EXCEPT ![t].pc = "construct", ![t].call = c, ![t].fn = c.op]
    /\ UNCHANGED <<heap, caller_vars, app_vars>>

\* result = TraegerBerechnung(...), result = PlatteBerechnung(...), materialien = {...}
Construct(t) ==
    /\ threads[t].pc = "construct"
    /\ LET o == NewObject(heap, t)
           fn == threads[t].fn
       IN  /\ heap' = [heap EXCEPT ![o] = constructed(fn, threads[t].call)]
           /\ threads' = [threads EXCEPT
                            ![t].ref = o,
                            ![t].pc = CASE fn = "get_material_e_modul" -> "get"
                                        [] fn = "berechne_platte_durchlauf" -> "call_einfeld"
                                        [] OTHER -> "assign"]
    /\ UNCHANGED <<caller_vars, app_vars>>

\* einfeld = berechne_platte_einfeld(laenge_x, laenge_y, last, emodul, dicke): the
\* callee is entered and constructs its own result; the caller's waits in outer.
CallEinfeld(t) ==
    /\ threads[t].pc = "call_einfeld"
    /\ LET o == NewObject(heap, t)
       IN  /\ heap' = [heap EXCEPT
                         ![o] = constructed("berechne_platte_einfeld", threads[t].call)]
           /\ threads' = [threads EXCEPT ![t].outer = threads[t].ref,
                                         ![t].ref = o,
                                         ![t].fn = "berechne_platte_einfeld",
                                         ![t].pc = "assign"]
    /\ UNCHANGED <<caller_vars, app_vars>>


\* The assignments of the computed quantities to result, up to the limit.
Assign(t) ==
    /\ threads[t].pc = "assign"
    /\ LET th == threads[t]
           obj == heap[th.ref]
           o == CASE th.fn = "berechne_einfeldtraeger" ->
                         assign_einfeldtraeger(th.call, obj)
                  [] th.fn = "berechne_platte_einfeld" ->
                         assign_platte_einfeld(th.call, obj)
                  [] th.fn = "berechne_platte_durchlauf" ->
                         IF Holds(t, heap[th.einfeld])
                         THEN assign_platte_durchlauf(th.call, obj, heap[th.einfeld])
                         ELSE Raised("AttributeError", 0)
       IN  IF ~Holds(t, obj) THEN ThreadRaises(t, "AttributeError") /\ UNCHANGED heap
           ELSE IF o.error # "none" THEN ThreadRaises(t, o.error) /\ UNCHANGED heap
           ELSE /\ heap' = [heap EXCEPT ![th.ref] = o.result]
                /\ threads' = [threads EXCEPT ![t].pc = "ausnutzung"]
    /\ UNCHANGED <<caller_vars, app_vars>>

\* if result.<limit> > 0: result.<utilization> = ...; for a beam, return result
Utilization(t) ==
    /\ threads[t].pc = "ausnutzung"
    /\ LET th == threads[t]
           obj == heap[th.ref]
       IN  IF ~Holds(t, obj) THEN ThreadRaises(t, "AttributeError") /\ UNCHANGED heap
           ELSE /\ heap' = [heap EXCEPT ![th.ref] = assign_ausnutzung(obj)]
                /\ threads' = [threads EXCEPT
                                 ![t].pc = IF obj.kind = "TraegerBerechnung"
                                           THEN "returned" ELSE "bewehrung"]
    /\ UNCHANGED <<caller_vars, app_vars>>

\* result.bewehrung_x = ..., result.bewehrung_y = ...; return result:
\* berechne_platte_einfeld returns its record into berechne_platte_durchlauf, which
\* goes on with its own, berechne_platte_durchlauf returns to the thread's caller.
Reinforce(t) ==
    /\ threads[t].pc = "bewehrung"
    /\ LET th == threads[t]
           obj == heap[th.ref]
           o == assign_bewehrung(th.call, obj)
       IN  IF ~Holds(t, obj) THEN ThreadRaises(t, "AttributeError") /\ UNCHANGED heap
           ELSE IF o.error # "none" THEN ThreadRaises(t, o.error) /\ UNCHANGED heap
           ELSE /\ heap' = [heap EXCEPT ![th.ref] = o.result]
                /\ threads' =
                      IF th.fn # th.call.op
                      THEN [threads EXCEPT ![t].einfeld = th.ref, ![t].ref = th.outer,
                                           ![t].outer = 0, ![t].fn = th.call.op,
                                           ![t].pc = "assign"]
                      ELSE [threads EXCEPT ![t].pc = "returned"]
    /\ UNCHANGED <<caller_vars, app_vars>>

\* return materialien.get(material, 210000)
Get(t) ==
    /\ threads[t].pc = "get"
    /\ LET th == threads[t]
           obj == heap[th.ref]
       IN  IF ~Holds(t, obj) THEN ThreadRaises(t, "AttributeError")
           ELSE threads' = [threads EXCEPT
                              ![t].value = DictGet(obj.table, th.call.material, R(210000)),
                              ![t].pc = "returned"]
    /\ UNCHANGED <<heap, caller_vars, app_vars>>

\* The thread's caller is done with what the call returned; the objects of the
\* call are released.
Finish(t) ==
    /\ threads[t].pc = "returned"
    /\ LET th == threads[t]
       IN  heap' = [o \in DOMAIN heap |->
                      IF o \in {th.ref, th.outer, th.einfeld} THEN Free ELSE heap[o]]
    /\ threads' = [threads EXCEPT ![t] = IdleThread]
    /\ UNCHANGED <<caller_vars, app_vars>>

ConcNext ==
    \E t \in Threads :
        \/ Begin(t)
        \/ Construct(t)
        \/ CallEinfeld(t)
        \/ Assign(t)
        \/ Utilization(t)
        \/ Reinforce(t)
        \/ Get(t)
        \/ Finish(t)

ConcSpec == Init /\ [][ConcNext]_vars

\* ------------------------------------------------------------------ app

\* The sidebar's selections and values when "Berechnung starten" is pressed,
\* within the widgets' ranges.  (The continuous beam's span widgets are left out.)
AppInputs ==
    {[berechnungs_typ |-> "Traeger", typ |-> t, laenge |-> l, streckenlast |-> R(5),
      material |-> "Stahl (S235)", profil |-> p] :
        t \in {"Einfeldtraeger", "Kragtraeger"}, l \in {R(3), R(6), R(12)},
        p \in {"IPE 200", "IPE 300"}}
    \cup {[berechnungs_typ |-> "Rahmen", typ |-> t, breite |-> b, hoehe |-> R(4),
           hoehe_eg |-> Dec(35, -1), hoehe_og |-> Dec(35, -1), streckenlast |-> R(5),
           material |-> "Stahl (S235)", profil |-> "IPE 300"] :
             t \in {"Eingeschossig", "Zweigeschossig"}, b \in {R(8), R(12), R(16)}}
    \cup {[berechnungs_typ |-> "Platte", typ |-> t, laenge_x |-> R(6), laenge_y |-> R(4),
           last |-> R(5), material |-> "Beton C30/37", dicke |-> d] :
             t \in {"Einfeldplatte", "Durchlaufplatte (2 Felder)",
                    "Durchlaufplatte (4 Felder)"},
             d \in {Dec(20, -2), Dec(25, -2)}}

\* The calculation step inside the try block, up to the analyzer's return.
\* For a continuous slab int(platten_typ.split()[-1][0]) is int("F"): ValueError
\* before the analyzer is called.
calculation_step(w) ==
    LET emodul == get_material_e_modul(w.material)
    IN  CASE w.typ = "Einfeldtraeger" ->
                 berechne_einfeldtraeger(w.laenge, w.streckenlast, emodul,
                                         get_ipe_traegheitsmoment(w.profil))
          [] w.typ = "Kragtraeger" ->
                 berechne_kragtraeger(w.laenge, w.streckenlast, emodul,
                                      get_ipe_traegheitsmoment(w.profil))
          [] w.typ = "Eingeschossig" ->
                 berechne_rahmen_eingeschossig(w.breite, w.hoehe, w.streckenlast, emodul,
                                               get_ipe_traegheitsmoment(w.profil))
          [] w.typ = "Zweigeschossig" ->
                 berechne_rahmen_zweischossig(w.breite, w.hoehe_eg, w.hoehe_og,
                                              w.streckenlast, emodul,
                                              get_ipe_traegheitsmoment(w.profil))
          [] w.typ = "Einfeldplatte" ->
                 berechne_platte_einfeld(w.laenge_x, w.laenge_y, w.last, emodul, w.dicke)
          [] OTHER -> Raised("ValueError", 0)

\* The verdict the calculation step shows for its result
app_bewertung(shown) ==
    IF shown.kind = "TraegerBerechnung" THEN bewertung_l300(shown)
    ELSE IF RLeq(shown.ausnutzung, R(100)) THEN "ausreichend" ELSE "Durchbiegung zu hoch"

\* if st.session_state.last_result is None: st.info(...) else:
\* st.text(format_ergebnis(result))
detail_block(stored) ==
    IF stored = NoResult THEN NoOutput
    ELSE Text("format_ergebnis", format_ergebnis(stored))

\* StatikLLM(): the attributes __init__ sets
StatikLLM == [kind |-> "StatikLLM", context |-> ""]

\* A run of the script with no button pressed.
RunPlain ==
    /\ page' = Page("plain", "none", "none", detail_block(last_result), NoOutput, "none")
    /\ UNCHANGED <<last_result, caller_vars, conc_vars>>

\* A run of the script with "Berechnung starten" pressed.
RunBerechnen ==
    /\ \E w \in AppInputs :
          LET o == calculation_step(w)
          IN  IF o.error = "none"
              THEN /\ last_result' = o.result
                   /\ page' = Page("berechnen", "none", app_bewertung(o.result),
                                   detail_block(o.result), NoOutput, "none")
              ELSE /\ last_result' = last_result
                   /\ page' = Page("berechnen", o.error, "none",
                                   detail_block(last_result), NoOutput, "none")
    /\ UNCHANGED <<caller_vars, conc_vars>>

\* A run of the script with "KI-Erklaerung erzeugen" pressed; the button exists
\* only below a stored result.  The explanation is shown if generate_explanation
\* returns; the status message then reads llm.client.
RunKI ==
    /\ last_result # NoResult
    /\ \E frage \in Fragen :
          LET llm == StatikLLM
              erklaerung == generate_explanation(last_result, frage)
          IN  page' =
                IF erklaerung.error # "none"
                THEN Page("ki", "none", "none", detail_block(last_result), NoOutput,
                          erklaerung.error)
                ELSE Page("ki", "none", "none", detail_block(last_result), erklaerung,
                          IF hasattr(llm, "client") /\ hasattr(llm, "model")
                          THEN "none" ELSE "AttributeError")
    /\ UNCHANGED <<last_result, caller_vars, conc_vars>>

AppNext == RunPlain \/ RunBerechnen \/ RunKI

AppSpec == Init /\ [][AppNext]_vars

\* ------------------------------------------------------------------ claims

NonPositive(x) == x.n <= 0

\* Some span length of the list is zero or negative.
SomeFeldNonPositive(felder) == \E i \in 1..Len(felder) : NonPositive(felder[i])

BeamCallReturned ==
    /\ pc = "returned"
    /\ call.op \in {"berechne_einfeldtraeger", "berechne_kragtraeger",
                    "berechne_durchlauftrager"}

\* Some input of the beam call is zero or negative.
BeamInputNonPositive ==
    \/ NonPositive(call.streckenlast)
    \/ NonPositive(call.emodul)
    \/ NonPositive(call.traegheitsmoment)
    \/ IF call.op = "berechne_durchlauftrager"
       THEN SomeFeldNonPositive(call.felder)
       ELSE NonPositive(call.laenge)

\* C1: a beam operation called with a zero or negative length (or span length),
\* load, modulus or inertia fails and returns no result.  Stated in its weakest
\* form: any exception counts as the failure.
C1_NonPositiveBeamInputFails ==
    (BeamCallReturned /\ BeamInputNonPositive)
        => (error # "none" /\ result = NoResult)

\* C2: berechne_durchlauftrager called with a span list of any length other than
\* 2 or 3 raises the span-count ValueError before it constructs a result record,
\* and returns nothing.
C2_UnsupportedFelderRejected ==
    (pc = "returned" /\ call.op = "berechne_durchlauftrager"
     /\ Len(call.felder) \notin {2, 3})
        => (error = "ValueError" /\ result = NoResult /\ allocated = 0)

C2_Witness ==
    /\ pc = "returned"
    /\ call.op = "berechne_durchlauftrager"
    /\ Len(call.felder) = 4
    /\ \A i \in 1..4 : RPositive(call.felder[i])
    /\ RPositive(call.streckenlast) /\ RPositive(call.emodul)
    /\ RPositive(call.traegheitsmoment)
    /\ error = "ValueError"

\* C3: berechne_platte_durchlauf called with a span count outside {2, 3, 4} fails
\* and returns no slab result.  Stated in its weakest form: any exception counts,
\* and the other inputs are valid (positive), so that only the span count can be
\* what the call rejects.
C3_UnsupportedPlattenFelderFails ==
    (pc = "returned" /\ call.op = "berechne_platte_durchlauf"
     /\ call.felder \notin {2, 3, 4}
     /\ RPositive(call.laenge_x) /\ RPositive(call.laenge_y) /\ RPositive(call.last)
     /\ RPositive(call.emodul) /\ RPositive(call.dicke))
        => (error # "none" /\ result = NoResult)

FrameOrSlabCallReturned ==
    /\ pc = "returned"
    /\ call.op \in {"berechne_rahmen_eingeschossig", "berechne_rahmen_zweischossig",
                    "berechne_platte_einfeld", "berechne_platte_durchlauf"}

\* Some length, height, load, modulus, inertia or thickness of the frame or slab
\* call is zero or negative.
FrameOrSlabInputNonPositive ==
    \/ NonPositive(call.emodul)
    \/ CASE call.op = "berechne_rahmen_eingeschossig" ->
              \/ NonPositive(call.breite) \/ NonPositive(call.hoehe)
              \/ NonPositive(call.streckenlast) \/ NonPositive(call.traegheitsmoment)
         [] call.op = "berechne_rahmen_zweischossig" ->
              \/ NonPositive(call.breite) \/ NonPositive(call.hoehe_eg)
              \/ NonPositive(call.hoehe_og)
              \/ NonPositive(call.streckenlast) \/ NonPositive(call.traegheitsmoment)
         [] OTHER ->
              \/ NonPositive(call.laenge_x) \/ NonPositive(call.laenge_y)
              \/ NonPositive(call.last) \/ NonPositive(call.dicke)

\* C4: a frame or slab operation called with a length, height, load, modulus,
\* inertia or thickness <= 0 fails and returns no result.  Stated in its weakest
\* form: any exception counts as the failure.
C4_NonPositiveFrameSlabInputFails ==
    (FrameOrSlabCallReturned /\ FrameOrSlabInputNonPositive)
        => (error # "none" /\ result = NoResult)

\* C5: both lookups return a strictly positive number for every name and never
\* raise; an unknown material yields 210000 and an unknown section 1940e-8.
C5_LookupsTotal ==
    /\ (pc = "returned" /\ call.op = "get_material_e_modul")
          => /\ error = "none"
             /\ result.kind = "float"
             /\ RPositive(result.value)
             /\ (call.material \notin DOMAIN materialien
                    => result.value = R(210000))
    /\ (pc = "returned" /\ call.op = "get_ipe_traegheitsmoment")
          => /\ error = "none"
             /\ result.kind = "float"
             /\ RPositive(result.value)
             /\ (call.profil \notin DOMAIN ipe_profile
                    => result.value = Dec(1940, -8))

C5_Witness ==
    /\ pc = "returned"
    /\ call.op = "get_material_e_modul"
    /\ call.material = "Titan"
    /\ result = [kind |-> "float", value |-> R(210000)]

\* The einfeld call returned and all four of its inputs are positive.
EinfeldPositiveReturned ==
    /\ pc = "returned"
    /\ call.op = "berechne_einfeldtraeger"
    /\ RPositive(call.laenge) /\ RPositive(call.streckenlast)
    /\ RPositive(call.emodul) /\ RPositive(call.traegheitsmoment)

PositiveOf(S) == {x \in S : RPositive(x)}

\* C6: for positive L, q, E, I berechne_einfeldtraeger returns
\* biegemoment_max = q*L^2/8 and querkraft_max = q*L/2, whatever E and I are.
C6_EinfeldMomentShear ==
    EinfeldPositiveReturned
        => /\ error = "none"
           /\ result.biegemoment_max =
                 RDiv(RMul(call.streckenlast, RMul(call.laenge, call.laenge)), R(8))
           /\ result.querkraft_max = RDiv(RMul(call.streckenlast, call.laenge), R(2))
           /\ \A E \in PositiveOf(EModule), I \in PositiveOf(Traegheitsmomente) :
                 LET other == berechne_einfeldtraeger(call.laenge, call.streckenlast, E, I)
                 IN  /\ other.result.biegemoment_max = result.biegemoment_max
                     /\ other.result.querkraft_max = result.querkraft_max

C6_Witness ==
    /\ EinfeldPositiveReturned
    /\ call.laenge = R(6) /\ call.streckenlast = R(5)
    /\ result.biegemoment_max = Dec(225, -1)
    /\ result.querkraft_max = R(15)

\* durchbiegung_max of berechne_einfeldtraeger for the given inputs (E*I # 0)
EinfeldDurchbiegung(laenge, streckenlast, emodul, traegheitsmoment) ==
    berechne_einfeldtraeger(laenge, streckenlast, emodul, traegheitsmoment)
        .result.durchbiegung_max

\* C7: with the other inputs fixed and positive, the deflection returned by
\* berechne_einfeldtraeger is strictly larger for every larger L and strictly
\* smaller for every larger I and for every larger E.
C7_EinfeldDeflectionMonotone ==
    EinfeldPositiveReturned
        => /\ error = "none"
           /\ \A L \in PositiveOf(Laengen) :
                 RLess(call.laenge, L)
                    => RLess(result.durchbiegung_max,
                             EinfeldDurchbiegung(L, call.streckenlast, call.emodul,
                                                 call.traegheitsmoment))
           /\ \A I \in PositiveOf(Traegheitsmomente) :
                 RLess(call.traegheitsmoment, I)
                    => RLess(EinfeldDurchbiegung(call.laenge, call.streckenlast,
                                                 call.emodul, I),
                             result.durchbiegung_max)
           /\ \A E \in PositiveOf(EModule) :
                 RLess(call.emodul, E)
                    => RLess(EinfeldDurchbiegung(call.laenge, call.streckenlast, E,
                                                 call.traegheitsmoment),
                             result.durchbiegung_max)

\* The call with the smallest positive L, E and I: every comparison of C7 is made.
C7_Witness ==
    /\ EinfeldPositiveReturned
    /\ \E L \in PositiveOf(Laengen) : RLess(call.laenge, L)
    /\ \E I \in PositiveOf(Traegheitsmomente) : RLess(call.traegheitsmoment, I)
    /\ \E E \in PositiveOf(EModule) : RLess(call.emodul, E)
    /\ RPositive(result.durchbiegung_max)

\* C8: for the same positive L and q, biegemoment_max of berechne_kragtraeger is
\* 4 times biegemoment_max of berechne_einfeldtraeger.
C8_KragMomentFourTimesEinfeld ==
    (pc = "returned" /\ call.op = "berechne_kragtraeger" /\ error = "none"
     /\ RPositive(call.laenge) /\ RPositive(call.streckenlast))
        => LET einfeld == berechne_einfeldtraeger(call.laenge, call.streckenlast,
                                                  call.emodul, call.traegheitsmoment)
           IN  /\ einfeld.error = "none"
               /\ result.biegemoment_max = RMul(R(4), einfeld.result.biegemoment_max)

C8_Witness ==
    /\ pc = "returned" /\ call.op = "berechne_kragtraeger" /\ error = "none"
    /\ call.laenge = R(3) /\ call.streckenlast = R(5)
    /\ result.biegemoment_max = Dec(225, -1)

\* The durchlauf call returned a result for a list of 2 or 3 positive spans.
DurchlaufPositiveReturned ==
    /\ pc = "returned"
    /\ call.op = "berechne_durchlauftrager"
    /\ error = "none"
    /\ Len(call.felder) \in {2, 3}
    /\ ~SomeFeldNonPositive(call.felder)

\* C9: for 2 or 3 positive spans the governing span is the longest one,
\* max_feld_index is the (0-based) position of its first occurrence, and
\* biegemoment_max = q*L_gov^2/8; spans [4, 5] give index 1 and q*25/8.
C9_GoverningSpan ==
    DurchlaufPositiveReturned
        => LET i == result.max_feld_index + 1
               L_gov == call.felder[i]
           IN  /\ i \in 1..Len(call.felder)
               /\ \A j \in 1..Len(call.felder) : RLeq(call.felder[j], L_gov)
               /\ \A j \in 1..(i - 1) : RLess(call.felder[j], L_gov)
               /\ result.biegemoment_max =
                     RDiv(RMul(call.streckenlast, RMul(L_gov, L_gov)), R(8))
               /\ (call.felder = <<R(4), R(5)>>
                     => /\ result.max_feld_index = 1
                        /\ result.biegemoment_max =
                              RDiv(RMul(call.streckenlast, R(25)), R(8)))

\* Three spans with the maximum at the first and the last place.
C9_Witness ==
    /\ DurchlaufPositiveReturned
    /\ call.felder = <<R(5), R(4), R(5)>>
    /\ result.max_feld_index = 0

\* C10: for an accepted span list, durchbiegung_max of berechne_durchlauftrager is
\* durchbiegung_max of berechne_einfeldtraeger for the governing span alone (same
\* q, E, I) times 0.70 for 2 spans and times 0.65 for 3 spans.
C10_DurchlaufDeflectionReduced ==
    (pc = "returned" /\ call.op = "berechne_durchlauftrager" /\ error = "none")
        => LET L_gov == call.felder[result.max_feld_index + 1]
               einfeld == berechne_einfeldtraeger(L_gov, call.streckenlast,
                                                  call.emodul, call.traegheitsmoment)
           IN  /\ Len(call.felder) \in {2, 3}
               /\ einfeld.error = "none"
               /\ Len(call.felder) = 2
                    => result.durchbiegung_max =
                          RMul(einfeld.result.durchbiegung_max, Dec(70, -2))
               /\ Len(call.felder) = 3
                    => result.durchbiegung_max =
                          RMul(einfeld.result.durchbiegung_max, Dec(65, -2))

C10_Witness ==
    /\ DurchlaufPositiveReturned
    /\ Len(call.felder) = 3
    /\ RPositive(call.streckenlast) /\ RPositive(call.emodul)
    /\ RPositive(call.traegheitsmoment)
    /\ RPositive(result.durchbiegung_max)

\* A beam call returned a result record.
BeamResultReturned == BeamCallReturned /\ error = "none"

\* The span the limits of the beam result refer to: the governing span of a
\* continuous beam, the length of the others.
BeamSpan ==
    IF call.op = "berechne_durchlauftrager"
    THEN call.felder[result.max_feld_index + 1]
    ELSE call.laenge

\* The dominant limit in mm: L/200 for a cantilever, L/300 for the others.
BeamDominantLimit ==
    IF call.op = "berechne_kragtraeger"
    THEN RDiv(RMul(BeamSpan, R(1000)), R(200))
    ELSE RDiv(RMul(BeamSpan, R(1000)), R(300))

\* C11: in every beam result the utilization is deflection / dominant limit * 100
\* (written without the division: utilization * limit = deflection * 100), with
\* the dominant limit L/300 of the (governing) span, L/200 for a cantilever; so it
\* is 100 when the deflection equals the limit and <= 100 exactly when the
\* deflection is <= the limit.
C11_UtilizationAgainstDominantLimit ==
    BeamResultReturned
        => /\ RMul(result.ausnutzung_l300, BeamDominantLimit)
                = RMul(result.durchbiegung_max, R(100))
           /\ (result.durchbiegung_max = BeamDominantLimit
                 => result.ausnutzung_l300 = R(100))
           /\ (RLeq(result.ausnutzung_l300, R(100))
                 <=> RLeq(result.durchbiegung_max, BeamDominantLimit))

\* x * 10^k rounded to the nearest integer: what a "%.kf" format prints, without
\* the decimal point (a tie does not occur in the values compared here).
Rounded(x, k) ==
    LET y == RMul(x, Dec(1, k))
        num == y.n * IntPow(2, y.e2) * IntPow(5, y.e5)
        den == y.d * IntPow(2, -y.e2) * IntPow(5, -y.e5)
    IN  (2 * num + den) \div (2 * den)

\* Scenario A: the simple beam L = 6, q = 5, E = 210000, I = 1940e-8 returned.
ScenarioA ==
    /\ EinfeldPositiveReturned
    /\ call.laenge = R(6) /\ call.streckenlast = R(5)
    /\ call.emodul = R(210000) /\ call.traegheitsmoment = Dec(1940, -8)

\* The formulas of C12: deflection 5*q*L^4/(384*(E*1000)*I)*1000 mm and the limits
\* L*1000/300 and L*1000/250 mm, for positive inputs.
C12_Formulas ==
    EinfeldPositiveReturned
        => /\ error = "none"
           /\ result.durchbiegung_max =
                 RMul(RDiv(RMul(R(5), RMul(call.streckenlast, RPow(call.laenge, 4))),
                           RMul(R(384), RMul(RMul(call.emodul, R(1000)),
                                             call.traegheitsmoment))),
                      R(1000))
           /\ result.grenzdurchbiegung_l300 = RDiv(RMul(call.laenge, R(1000)), R(300))
           /\ result.grenzdurchbiegung_l250 = RDiv(RMul(call.laenge, R(1000)), R(250))

\* C12 as claimed: the formulas, and for scenario A moment 22.50 kNm, shear
\* 15.00 kN, deflection 20.72 mm, L/300 limit 20.00 mm, utilization 103.6 %.
C12_AsClaimed ==
    /\ C12_Formulas
    /\ ScenarioA
         => /\ Rounded(result.biegemoment_max, 2) = 2250
            /\ Rounded(result.querkraft_max, 2) = 1500
            /\ Rounded(result.durchbiegung_max, 2) = 2072
            /\ Rounded(result.grenzdurchbiegung_l300, 2) = 2000
            /\ Rounded(result.ausnutzung_l300, 1) = 1036

\* C12, amended: the formulas, and for scenario A moment 22.50 kNm, shear
\* 15.00 kN, deflection 20.71 mm, L/300 limit 20.00 mm, utilization 103.6 %.
C12_EinfeldFormulasScenarioA ==
    /\ C12_Formulas
    /\ ScenarioA
         => /\ Rounded(result.biegemoment_max, 2) = 2250
            /\ Rounded(result.querkraft_max, 2) = 1500
            /\ Rounded(result.durchbiegung_max, 2) = 2071
            /\ Rounded(result.grenzdurchbiegung_l300, 2) = 2000
            /\ Rounded(result.ausnutzung_l300, 1) = 1036

C12_Witness == ScenarioA /\ error = "none" /\ RPositive(result.durchbiegung_max)

\* C13: for positive inputs berechne_kragtraeger returns moment q*L^2/2, shear
\* q*L, deflection q*L^4/(8*(E*1000)*I)*1000 mm and the limits L*1000/300 and
\* L*1000/200 mm; L = 3, q = 5, E = 210000, I = 1940e-8 give moment 22.50 kNm,
\* shear 15.00 kN and L/200 limit 15.00 mm.
C13_KragFormulasScenarioB ==
    (pc = "returned" /\ call.op = "berechne_kragtraeger"
     /\ RPositive(call.laenge) /\ RPositive(call.streckenlast)
     /\ RPositive(call.emodul) /\ RPositive(call.traegheitsmoment))
        => /\ error = "none"
           /\ result.biegemoment_max =
                 RDiv(RMul(call.streckenlast, RMul(call.laenge, call.laenge)), R(2))
           /\ result.querkraft_max = RMul(call.streckenlast, call.laenge)
           /\ result.durchbiegung_max =
                 RMul(RDiv(RMul(call.streckenlast, RPow(call.laenge, 4)),
                           RMul(R(8), RMul(RMul(call.emodul, R(1000)),
                                           call.traegheitsmoment))),
                      R(1000))
           /\ result.grenzdurchbiegung_l300 = RDiv(RMul(call.laenge, R(1000)), R(300))
           /\ result.grenzdurchbiegung_l200 = RDiv(RMul(call.laenge, R(1000)), R(200))
           /\ (call.laenge = R(3) /\ call.streckenlast = R(5)
               /\ call.emodul = R(210000) /\ call.traegheitsmoment = Dec(1940, -8))
                 => /\ Rounded(result.biegemoment_max, 2) = 2250
                    /\ Rounded(result.querkraft_max, 2) = 1500
                    /\ Rounded(result.grenzdurchbiegung_l200, 2) = 1500

\* Scenario B returned.
C13_Witness ==
    /\ pc = "returned" /\ call.op = "berechne_kragtraeger" /\ error = "none"
    /\ call.laenge = R(3) /\ call.streckenlast = R(5)
    /\ call.emodul = R(210000) /\ call.traegheitsmoment = Dec(1940, -8)
    /\ result.grenzdurchbiegung_l200 = R(15)

\* A slab call with positive dimensions, load, modulus and thickness returned.
SlabPositiveReturned ==
    /\ pc = "returned"
    /\ call.op \in {"berechne_platte_einfeld", "berechne_platte_durchlauf"}
    /\ RPositive(call.laenge_x) /\ RPositive(call.laenge_y) /\ RPositive(call.last)
    /\ RPositive(call.emodul) /\ RPositive(call.dicke)

\* C14: for positive inputs berechne_platte_einfeld returns max_durchbiegung =
\* 1000 * 0.00406 * q * Lx^4 / D mm, with D = (E*1000)*h^3/(12*(1-0.2^2)).
C14_PlatteDeflection ==
    (SlabPositiveReturned /\ call.op = "berechne_platte_einfeld")
        => /\ error = "none"
           /\ result.max_durchbiegung =
                 RDiv(RMul(RMul(R(1000), Dec(406, -5)),
                           RMul(call.last, RPow(call.laenge_x, 4))),
                      RDiv(RMul(RMul(call.emodul, R(1000)), RPow(call.dicke, 3)),
                           RMul(R(12), RSub(R(1), RMul(Dec(2, -1), Dec(2, -1))))))

\* The dimension whose span governs the bending moment of the slab call.
GoverningDimension ==
    IF RLeq(call.laenge_x, call.laenge_y) THEN call.laenge_x ELSE call.laenge_y

\* C15: in every slab result for positive inputs grenzdurchbiegung is L/250 of
\* the governing dimension (Lx when Ly/Lx >= 1, Ly otherwise), in mm, and the
\* utilization is the deflection divided by that limit times 100.
C15_SlabLimitOfGoverningDimension ==
    (SlabPositiveReturned /\ error = "none")
        => /\ result.grenzdurchbiegung =
                 RDiv(RMul(GoverningDimension, R(1000)), R(250))
           /\ result.ausnutzung =
                 RMul(RDiv(result.max_durchbiegung,
                           RDiv(RMul(GoverningDimension, R(1000)), R(250))),
                      R(100))

\* C16: for positive Lx, Ly, q, when Ly/Lx >= 1 berechne_platte_einfeld returns
\* max_moment_x = q*Lx^2/8 and max_moment_y = half of it; otherwise
\* max_moment_y = q*Ly^2/8 and max_moment_x = half of it.
C16_SlabMomentsByRatio ==
    (pc = "returned" /\ call.op = "berechne_platte_einfeld" /\ error = "none"
     /\ RPositive(call.laenge_x) /\ RPositive(call.laenge_y) /\ RPositive(call.last))
        => IF RLeq(call.laenge_x, call.laenge_y)
           THEN /\ result.max_moment_x =
                      RDiv(RMul(call.last, RMul(call.laenge_x, call.laenge_x)), R(8))
                /\ result.max_moment_y = RDiv(result.max_moment_x, R(2))
           ELSE /\ result.max_moment_y =
                      RDiv(RMul(call.last, RMul(call.laenge_y, call.laenge_y)), R(8))
                /\ result.max_moment_x = RDiv(result.max_moment_y, R(2))

\* A slab whose y span governs returned, and the moments differ.
C16_Witness ==
    /\ pc = "returned" /\ call.op = "berechne_platte_einfeld" /\ error = "none"
    /\ call.laenge_x = R(6) /\ call.laenge_y = R(3) /\ call.last = R(5)
    /\ result.max_moment_y = Dec(5625, -3)
    /\ result.max_moment_x = Dec(28125, -4)

\* The reduction factor the continuous slab is said to apply for a span count.
C17_Factor(felder) ==
    CASE felder = 2 -> Dec(70, -2) [] felder = 3 -> Dec(65, -2) [] felder = 4 -> Dec(60, -2)

\* C17: for span counts 2, 3 and 4 berechne_platte_durchlauf returns the moments
\* of both directions, the deflection and the reinforcement areas of
\* berechne_platte_einfeld for the same Lx, Ly, q, E, h times 0.70, 0.65, 0.60.
C17_DurchlaufSlabReduced ==
    (pc = "returned" /\ call.op = "berechne_platte_durchlauf" /\ error = "none"
     /\ call.felder \in {2, 3, 4})
        => LET einfeld == berechne_platte_einfeld(call.laenge_x, call.laenge_y,
                                                  call.last, call.emodul, call.dicke)
               f == C17_Factor(call.felder)
           IN  /\ einfeld.error = "none"
               /\ result.max_moment_x = RMul(einfeld.result.max_moment_x, f)
               /\ result.max_moment_y = RMul(einfeld.result.max_moment_y, f)
               /\ result.max_durchbiegung = RMul(einfeld.result.max_durchbiegung, f)
               /\ result.bewehrung_x = RMul(einfeld.result.bewehrung_x, f)
               /\ result.bewehrung_y = RMul(einfeld.result.bewehrung_y, f)

\* A four-span slab with positive inputs returned with non-zero reinforcement.
C17_Witness ==
    /\ SlabPositiveReturned /\ call.op = "berechne_platte_durchlauf"
    /\ error = "none" /\ call.felder = 4
    /\ RPositive(result.bewehrung_x) /\ RPositive(result.max_durchbiegung)

\* A frame call with positive width, load, modulus and inertia returned.
FramePositiveReturned(op) ==
    /\ pc = "returned" /\ call.op = op
    /\ RPositive(call.breite) /\ RPositive(call.streckenlast)
    /\ RPositive(call.emodul) /\ RPositive(call.traegheitsmoment)

\* t is tan(30 degrees) = 1/sqrt(3) to four decimal places: |3*t^2 - 1| < 0.0001.
IsTan30(t) ==
    /\ RLess(RSub(R(1), Dec(1, -4)), RMul(R(3), RMul(t, t)))
    /\ RLess(RMul(R(3), RMul(t, t)), RAdd(R(1), Dec(1, -4)))

C19_ZweischossigReactions ==
    FramePositiveReturned("berechne_rahmen_zweischossig")
        => LET qB == RMul(call.streckenlast, call.breite)
               eingeschossig ==
                   berechne_rahmen_eingeschossig(call.breite, call.hoehe_eg,
                                                 call.streckenlast, call.emodul,
                                                 call.traegheitsmoment)
           IN  /\ error = "none"
               /\ result.schwingungsmoment = RDiv(RMul(qB, call.breite), R(10))
               /\ result.riegelmoment = RDiv(RMul(qB, call.breite), R(20))
               /\ result.stuetzkraft_horiz = RDiv(qB, R(20))
               /\ result.stuetzkraft_vert = qB
               /\ eingeschossig.error = "none"
               /\ result.stuetzkraft_vert =
                      RMul(R(2), eingeschossig.result.stuetzkraft_vert)

\* The two-story frame B = 6, q = 5 returned with vertical reaction 30 kN.
C19_Witness ==
    /\ FramePositiveReturned("berechne_rahmen_zweischossig") /\ error = "none"
    /\ call.breite = R(6) /\ call.streckenlast = R(5)
    /\ result.stuetzkraft_vert = R(30)

\* The declared fields of the result record's class, read off the record the
\* constructors build (every field but the model's class tag).
DeclaredFields == DOMAIN result \ {"kind"}

\* C20: to_dict of a TraegerBerechnung, RahmenBerechnung or PlatteBerechnung
\* returns a mapping whose key set is exactly the declared fields of the class
\* and whose values equal the record's field values at the time of the call:
\* every step in which to_dict returns a mapping returns this one.
C20_ToDictExactFields ==
    [][(exported' # exported /\ exported' # NoDict)
          => /\ DOMAIN exported' = DeclaredFields
             /\ DOMAIN exported' =
                   (CASE result.kind = "TraegerBerechnung" -> traeger_fields
                      [] result.kind = "RahmenBerechnung" -> rahmen_fields
                      [] result.kind = "PlatteBerechnung" -> platte_fields)
             /\ \A f \in DOMAIN exported' : exported'[f] = result[f]]_vars

\* A cantilever result was serialized and carries its L/200 limit.
C20_Witness ==
    /\ exported # NoDict
    /\ result.kind = "TraegerBerechnung" /\ result.traeger_typ = "krag"
    /\ exported.grenzdurchbiegung_l200 = R(15)

\* A frame result and a slab result were serialized.
C20_WitnessRahmen == exported # NoDict /\ result.kind = "RahmenBerechnung"
C20_WitnessPlatte == exported # NoDict /\ result.kind = "PlatteBerechnung"

\* The fields whose values the text block prints.
FieldsPrinted(text) ==
    UNION {{text[i].items[j].field : j \in 1..Len(text[i].items)} : i \in 1..Len(text)}

\* C21: for a result of any of the three classes, the block format_ergebnis
\* returns contains every field of the class: the inputs, all computed
\* quantities including the deflection limits and, for continuous beams, the
\* governing span index, and the utilization.
C21_FormatContainsEveryField ==
    (output.by = "format_ergebnis"
     /\ result.kind \in {"TraegerBerechnung", "RahmenBerechnung", "PlatteBerechnung"})
        => DeclaredFields \subseteq FieldsPrinted(output.text)

\* C22: a result record returned by an analyzer keeps all its field values under
\* every later action: format_ergebnis, to_dict, the explanation and the report
\* leave it unchanged, and so does a later change by the caller to the span list
\* it passed to berechne_durchlauftrager.  (Stated for the beam records of calls
\* with positive inputs.)
C22_ResultKeepsItsFields ==
    [][(pc = "returned" /\ pc' = "returned"
        /\ (BeamCallReturned => ~BeamInputNonPositive))
          => result' = result]_vars

\* The part of C22 about the presentation functions: a step that returns a text
\* or a dict leaves the record as it was.
C22_PresentationReadOnly ==
    [][(output' # output \/ exported' # exported) /\ pc' = "returned" /\ pc = "returned"
          => result' = result]_vars

\* The outcome of a call that runs alone, with the number of objects it built
AloneOutcome(c) ==
    CASE c.op = "berechne_einfeldtraeger" ->
             berechne_einfeldtraeger(c.laenge, c.streckenlast, c.emodul, c.traegheitsmoment)
      [] c.op = "berechne_platte_durchlauf" ->
             berechne_platte_durchlauf(c.laenge_x, c.laenge_y, c.last, c.emodul, c.dicke,
                                       c.felder)
      [] c.op = "get_material_e_modul" -> Returned(get_material_e_modul(c.material), 1)

\* The objects a thread's call holds
ThreadObjects(t) == {threads[t].ref, threads[t].outer, threads[t].einfeld} \ {0}

\* The outcome of the call a thread has returned from
ThreadOutcome(t) ==
    [error |-> threads[t].error,
     result |-> IF threads[t].error # "none" THEN NoResult
                ELSE IF threads[t].call.op = "get_material_e_modul" THEN threads[t].value
                ELSE heap[threads[t].ref],
     allocated |-> Cardinality(ThreadObjects(t))]

\* C23: under any interleaving of concurrent analyzer and lookup calls every
\* call returns what it returns when run alone (the same record, the same value
\* or the same exception, from as many objects of its own), and no two calls
\* hold the same object.
C23_ConcurrentCallsAsAlone ==
    /\ \A t \in Threads :
          threads[t].pc = "returned" => ThreadOutcome(t) = AloneOutcome(threads[t].call)
    /\ \A t, u \in Threads : t # u => ThreadObjects(t) \cap ThreadObjects(u) = {}

\* Two calls overlap: one has returned its record while another is between its
\* constructor and its return.
C23_Witness ==
    \E t, u \in Threads :
        /\ t # u
        /\ threads[t].pc = "returned" /\ threads[t].error = "none"
        /\ threads[t].call.op = "berechne_platte_durchlauf"
        /\ threads[u].pc \in {"assign", "ausnutzung", "bewehrung", "get"}
        /\ threads[u].call # threads[t].call

C24_FailedStepStoresNothing ==
    [][(page'.run = "berechnen" /\ page'.error # "none")
          => last_result' = last_result /\ page'.verdict = "none"]_vars

C30_BeamExplanationShown ==
    (page.run = "ki" /\ last_result.kind = "TraegerBerechnung")
        => page.explanation # NoOutput /\ page.crashed = "AttributeError"

\* The shear q*L/2 of one span
SpanShear(q, L) == RDiv(RMul(q, L), R(2))

\* C25: for an accepted span list and a positive load, querkraft_max of
\* berechne_durchlauftrager is the maximum over the spans of q*L_i/2, which is
\* q*L_gov/2 for the governing span.
C25_DurchlaufShearOfGoverningSpan ==
    (pc = "returned" /\ call.op = "berechne_durchlauftrager" /\ error = "none"
       /\ RPositive(call.streckenlast))
        => LET q == call.streckenlast
               L_gov == call.felder[result.max_feld_index + 1]
           IN  /\ \A j \in 1..Len(call.felder) :
                     RLeq(SpanShear(q, call.felder[j]), result.querkraft_max)
               /\ \E j \in 1..Len(call.felder) :
                     result.querkraft_max = SpanShear(q, call.felder[j])
               /\ result.querkraft_max = SpanShear(q, L_gov)

\* Spans [4, 5, 4] under 5 kN/m: the governing span is the second, the shear 12.5.
C25_Witness ==
    /\ pc = "returned" /\ call.op = "berechne_durchlauftrager" /\ error = "none"
    /\ call.felder = <<R(4), R(5), R(4)>>
    /\ call.streckenlast = R(5)
    /\ result.querkraft_max = Dec(125, -1)

\* A frame analyzer has returned a record.
FrameReturned ==
    /\ pc = "returned" /\ error = "none"
    /\ call.op \in {"berechne_rahmen_eingeschossig", "berechne_rahmen_zweischossig"}

\* The outcomes of the other frame analyzer for the same B, q, E, I, for every
\* choice of its heights
OtherFrameOutcomes ==
    IF call.op = "berechne_rahmen_eingeschossig"
    THEN {berechne_rahmen_zweischossig(call.breite, h1, h2, call.streckenlast,
                                       call.emodul, call.traegheitsmoment) :
            h1 \in Hoehen, h2 \in Hoehen}
    ELSE {berechne_rahmen_eingeschossig(call.breite, h, call.streckenlast, call.emodul,
                                        call.traegheitsmoment) : h \in Hoehen}

\* C26: for equal B, q, E, I both frame analyzers return the same
\* durchbiegung_riegel, grenzdurchbiegung (B*1000/300) and ausnutzung, and the
\* deflection is the durchbiegung_max berechne_einfeldtraeger returns for
\* length B with the same q, E, I.
C26_FrameDeflectionAsEinfeld ==
    FrameReturned
        => LET einfeld == berechne_einfeldtraeger(call.breite, call.streckenlast,
                                                  call.emodul, call.traegheitsmoment)
           IN  /\ \A other \in OtherFrameOutcomes :
                     /\ other.error = "none"
                     /\ other.result.durchbiegung_riegel = result.durchbiegung_riegel
                     /\ other.result.grenzdurchbiegung = result.grenzdurchbiegung
                     /\ other.result.ausnutzung = result.ausnutzung
               /\ result.grenzdurchbiegung = RDiv(RMul(call.breite, R(1000)), R(300))
               /\ einfeld.error = "none"
               /\ einfeld.result.durchbiegung_max = result.durchbiegung_riegel

\* A two-story frame of 6 m width with positive inputs and a deflection above
\* zero.
C26_Witness ==
    /\ FrameReturned
    /\ call.op = "berechne_rahmen_zweischossig"
    /\ call.breite = R(6)
    /\ RPositive(result.durchbiegung_riegel)
    /\ RPositive(result.ausnutzung)

\* A slab analyzer has returned a record.
SlabReturned ==
    /\ pc = "returned" /\ error = "none"
    /\ call.op \in {"berechne_platte_einfeld", "berechne_platte_durchlauf"}

\* (moment * 10^6) / (z * f_yd) / 100 with z = 0.9 * h * 1000 and f_yd = 500 / 1.15
C27_Area(moment, h) ==
    RDiv(RDiv(RMul(moment, R(1000000)),
              RMul(RMul(RMul(Dec(9, -1), h), R(1000)), RDiv(R(500), Dec(115, -2)))),
         R(100))

\* C27: in every slab result the reinforcement of each direction is
\* (moment*10^6)/(z*f_yd)/100 of that direction's returned moment, with
\* z = 0.9*h*1000 and f_yd = 500/1.15, and the non-governing direction has half
\* the reinforcement of the governing one (y governs when laenge_x > 0 and
\* laenge_y < laenge_x, x otherwise).
C27_ReinforcementFromMoment ==
    SlabReturned
        => LET x_governs == ~RPositive(call.laenge_x) \/ RLeq(call.laenge_x, call.laenge_y)
           IN  /\ result.bewehrung_x = C27_Area(result.max_moment_x, call.dicke)
               /\ result.bewehrung_y = C27_Area(result.max_moment_y, call.dicke)
               /\ IF x_governs
                  THEN result.bewehrung_y = RMul(result.bewehrung_x, Dec(5, -1))
                  ELSE result.bewehrung_x = RMul(result.bewehrung_y, Dec(5, -1))

\* A continuous slab of 6 m by 3 m: y governs, and both areas are above zero.
C27_Witness ==
    /\ SlabReturned
    /\ call.op = "berechne_platte_durchlauf"
    /\ call.laenge_x = R(6) /\ call.laenge_y = R(3)
    /\ RPositive(result.bewehrung_x)
    /\ result.bewehrung_y = RMul(result.bewehrung_x, R(2))

\* The explanation or the report shown last tells the user that the deflection
\* lies within the L/300 limit.
SaysWithinL300 ==
    /\ output.by \in {"generate_explanation", "generate_report"}
    /\ output.error = "none"
    /\ \E i \in 1..Len(output.text) :
          \/ output.text[i].label =
                "Die Durchbiegung liegt im zulaessigen Bereich: unter dem Grenzwert (L/300)"
          \/ /\ output.text[i].label = "3. Bewertung"
             /\ output.text[i].items[1].value = "im zulaessigen Bereich (L/300)"

\* C28: whenever the explanation or the report says that a beam result's
\* deflection lies within the L/300 limit, the result has
\* durchbiegung_max <= grenzdurchbiegung_l300, for every beam type.  (Results of
\* calls with positive inputs; the app's verdict takes the same branch.)
C28_WithinL300VerdictSound ==
    (BeamCallReturned /\ error = "none" /\ ~BeamInputNonPositive /\ SaysWithinL300)
        => RLeq(result.durchbiegung_max, result.grenzdurchbiegung_l300)

\* For simple and continuous beams the verdict is sound.
C28_SoundExceptCantilever ==
    (BeamCallReturned /\ error = "none" /\ ~BeamInputNonPositive /\ SaysWithinL300
       /\ call.op # "berechne_kragtraeger")
        => RLeq(result.durchbiegung_max, result.grenzdurchbiegung_l300)

\* C29: the story heights do not influence any computed quantity: a call of
\* berechne_rahmen_eingeschossig with any other hoehe, or of
\* berechne_rahmen_zweischossig with any other hoehe_eg, hoehe_og, returns the
\* same record except for the echoed hoehe (the sum of both heights for two
\* stories).
C29_HeightsOnlyEchoed ==
    FrameReturned
        => IF call.op = "berechne_rahmen_eingeschossig"
           THEN /\ result.hoehe = call.hoehe
                /\ \A h \in Hoehen :
                      LET o == berechne_rahmen_eingeschossig(call.breite, h,
                                   call.streckenlast, call.emodul, call.traegheitsmoment)
                      IN  o.error = "none" /\ o.result = [result EXCEPT !.hoehe = h]
           ELSE /\ result.hoehe = RAdd(call.hoehe_eg, call.hoehe_og)
                /\ \A h1 \in Hoehen, h2 \in Hoehen :
                      LET o == berechne_rahmen_zweischossig(call.breite, h1, h2,
                                   call.streckenlast, call.emodul, call.traegheitsmoment)
                      IN  /\ o.error = "none"
                          /\ o.result = [result EXCEPT !.hoehe = RAdd(h1, h2)]

\* A single-story frame of 6 m width and 4 m height with a horizontal reaction
\* above zero.
C29_Witness ==
    /\ FrameReturned
    /\ call.op = "berechne_rahmen_eingeschossig"
    /\ call.breite = R(6) /\ call.hoehe = R(4)
    /\ RPositive(result.stuetzkraft_horiz)

\* A two-story frame with unequal story heights.
C29_WitnessZweischossig ==
    /\ FrameReturned
    /\ call.op = "berechne_rahmen_zweischossig"
    /\ call.hoehe_eg = R(4) /\ call.hoehe_og = R(3)
    /\ result.hoehe = R(7)

====
